---------------------------- MODULE Spec2Model ----------------------------
(* A model of devon/swebenchenv/environment/swe_env.py: the SWEEnv session *)
(* (shell bridge, virtual editor, file toolbox, diff commit, dispatcher,   *)
(* step).  Strings that the code inspects character by character (paths)   *)
(* are sequences of one-character strings; file contents are kept line by  *)
(* line.                                                                   *)
EXTENDS Integers, Sequences, FiniteSets, TLC

VARIABLES
    disk,          \* the container's files: canonical path -> contents or NoFile
    editor,        \* self.editor: abs_path -> [lines, page]
    cwd,           \* the shell's working directory
    shell,         \* the long-lived shell process: ready, busy, dead
    returncode,    \* self.returncode
    call,          \* the last call made on the session and what it returned
    flagged,       \* history: paths whose latest successful call opened or created them
    nsteps,        \* number of calls made so far
    limit,         \* number of calls the episode is given
    fpath,         \* argument of the path normaliser
    abs_path,      \* its result
    session,       \* the task, its symbol index, and the trace of the last
                   \* call of reset or of the shell bridge
    helper         \* the last call of a helper: its name, argument and value

vars == <<disk, editor, cwd, shell, returncode, call, flagged, nsteps, limit, fpath, abs_path,
          session, helper>>

-----------------------------------------------------------------------------
(* Bounds of the model *)

MaxSteps == 3
MaxPathLen == 3
MaxDispatchSteps == 2
MaxPagingSteps == 4
MaxSessionSteps == 2
MaxCwdSteps == 2
MaxLintSteps == 4
MaxSearchSteps == 3
MaxInterruptSteps == 2
MaxIndexSteps == 2

-----------------------------------------------------------------------------
(* Strings as sequences of characters *)

SeqsUpTo(S, n) == UNION {[1..k -> S] : k \in 0..n}

StartsWith(s, t) == Len(t) <= Len(s) /\ SubSeq(s, 1, Len(t)) = t

RECURSIVE LStrip(_, _)
LStrip(s, c) == IF s # <<>> /\ Head(s) = c THEN LStrip(Tail(s), c) ELSE s

RECURSIVE RStrip(_, _)
RStrip(s, c) ==
    IF s # <<>> /\ s[Len(s)] = c THEN RStrip(SubSeq(s, 1, Len(s) - 1), c) ELSE s

\* str.strip(c)
Strip(s, c) == RStrip(LStrip(s, c), c)

\* s.split("/")[0]
RECURSIVE FirstPart(_)
FirstPart(s) ==
    IF s = <<>> \/ Head(s) = "/" THEN <<>> ELSE <<Head(s)>> \o FirstPart(Tail(s))

\* s.split("/")
RECURSIVE Split(_)
Split(s) ==
    LET h == FirstPart(s)
    IN  IF Len(h) = Len(s) THEN <<h>>
        ELSE <<h>> \o Split(SubSeq(s, Len(h) + 2, Len(s)))

\* os.path.join(a, b) of posixpath
PathJoin(a, b) ==
    IF b # <<>> /\ Head(b) = "/" THEN b
    ELSE IF a = <<>> \/ a[Len(a)] = "/" THEN a \o b
    ELSE a \o <<"/">> \o b

\* The name the kernel resolves an absolute path to: the list of its
\* segments with empty and "." segments dropped and ".." popping one.
RECURSIVE Resolve(_, _)
Resolve(segs, acc) ==
    IF segs = <<>> THEN acc
    ELSE LET s == Head(segs)
         IN  IF s = <<>> \/ s = <<".">> THEN Resolve(Tail(segs), acc)
             ELSE IF s = <<".", ".">>
                  THEN Resolve(Tail(segs),
                               IF acc = <<>> THEN acc ELSE SubSeq(acc, 1, Len(acc) - 1))
             ELSE Resolve(Tail(segs), Append(acc, s))

RECURSIVE Unsplit(_)
Unsplit(segs) ==
    IF segs = <<>> THEN <<>> ELSE <<"/">> \o Head(segs) \o Unsplit(Tail(segs))

Canon(p) == Unsplit(Resolve(Split(p), <<>>))

HasDotDot(p) == \E i \in 1..Len(Split(p)) : Split(p)[i] = <<".", ".">>

-----------------------------------------------------------------------------
(* The repository root and the path normaliser *)

\* self.file_root = "/" + record['repo'].replace('/', '__')
file_root == <<"/", "r">>

make_abs_path(p) ==
    LET f    == Strip(Strip(p, "'"), "\"")
        base == FirstPart(f)
    IN  IF <<"/">> \o base = file_root
        THEN <<"/">> \o LStrip(f, "/")
        ELSE PathJoin(PathJoin(<<"/">>, file_root), f)

\* The idiom every tool opens with: normalise, ask the shell for its
\* working directory, normalise again.
ResolveArg(p, wd) ==
    LET a == make_abs_path(p)
    IN  IF StartsWith(a, wd) THEN make_abs_path(a)
        ELSE make_abs_path(PathJoin(wd, a))

UnderRoot(p) == StartsWith(p, file_root \o <<"/">>) \/ p = file_root

-----------------------------------------------------------------------------
(* File contents: the newline-terminated lines, then the unterminated rest *)
(* ("" when the text ends with a newline or is empty).                     *)

Text(full, tail) == [full |-> full, tail |-> tail]

PAGE_SIZE == 200

\* str.splitlines()
Lines(c) == c.full \o (IF c.tail = "" THEN <<>> ELSE <<c.tail>>)

LineCount(c) == Len(Lines(c))

\* "\n".join(L)
JoinLines(L) ==
    IF L = <<>> THEN Text(<<>>, "")
    ELSE Text(SubSeq(L, 1, Len(L) - 1), L[Len(L)])

\* What  cat << 'DELIM' > path \n  content  \nDELIM  leaves in the file: the
\* lines of the command text up to the first line that is the delimiter; a
\* here-document always ends with a newline.
HeredocLines(c) == c.full \o <<c.tail>>

\* The lines of the command text that follow the here-document: the shell
\* reads them as commands.
HeredocRest(c) ==
    LET L == HeredocLines(c) \o <<"DELIM">>
        hits == {i \in 1..Len(L) : L[i] = "DELIM"}
        k == CHOOSE i \in hits : \A j \in hits : i <= j
    IN  SubSeq(L, k + 1, Len(L))

\* _check_syntax of the here-document command (bash -n): a line that is a
\* lone parenthesis is a syntax error of the shell; any other line of the
\* model ("x", "y", "[", "]", "DELIM") is a simple command.
check_syntax(c) == \A i \in 1..Len(HeredocRest(c)) : HeredocRest(c)[i] \notin {"(", ")"}

DelimAt(c) ==
    LET L == HeredocLines(c)
        hits == {i \in 1..Len(L) : L[i] = "DELIM"}
    IN  IF hits = {} THEN 0 ELSE CHOOSE i \in hits : \A j \in hits : i <= j

HeredocBody(c) ==
    LET L == HeredocLines(c)
        k == DelimAt(c)
    IN  Text(IF k = 0 THEN L ELSE SubSeq(L, 1, k - 1), "")

\* Exit status of the whole input: when the body ended early the rest of
\* the text, ending with the line DELIM, is run as commands (not found: 127).
\* A command text that fails the syntax check is not run: status 2.
HeredocStatus(c) ==
    IF ~check_syntax(c) THEN 2 ELSE IF DelimAt(c) = 0 THEN 0 ELSE 127

\* Bracket depth after the first k of the lines L.
Depth(L, k) ==
    Cardinality({i \in 1..k : L[i] \in {"(", "["}})
        - Cardinality({i \in 1..k : L[i] \in {")", "]"}})

\* compile(text, "<string>", "exec") succeeds: a line "(" or "[" opens a
\* bracket, a line ")" or "]" closes one, any other line is an expression;
\* the text parses when no bracket is closed before it is opened and every
\* bracket opened is closed.
Compiles(c) ==
    LET L == Lines(c)
        B == {i \in 1..Len(L) : L[i] \in {"(", "[", ")", "]"}}
    IN  /\ \A k \in B : Depth(L, k) >= 0
        /\ (B # {} => Depth(L, Len(L)) = 0)

-----------------------------------------------------------------------------
(* The container's file system *)

tests_dir == file_root \o <<"/", "t", "e", "s", "t", "s">>

Dirs == { <<>>, file_root, <<"/", "e">>, tests_dir }

Parent(p) ==
    LET segs == Resolve(Split(p), <<>>)
    IN  IF segs = <<>> THEN <<>> ELSE Unsplit(SubSeq(segs, 1, Len(segs) - 1))

\* test -f path
IsFile(dk, p) == Canon(p) \in DOMAIN dk

\* the shell can create or truncate path by redirection
Writable(dk, p) == Parent(p) \in Dirs /\ Canon(p) \notin Dirs

PutFile(dk, p, c) ==
    [q \in DOMAIN dk \cup {Canon(p)} |-> IF q = Canon(p) THEN c ELSE dk[q]]

RemoveFile(dk, p) == [q \in DOMAIN dk \ {Canon(p)} |-> dk[q]]

-----------------------------------------------------------------------------
(* One shell round trip (communicate) either returns or fails.  A call of   *)
(* a tool makes several; fl names the first one that fails, if any:         *)
(*   timeout   read_with_timeout raises TimeoutError, the command not done  *)
(*   pipe      the write to stdin raises BrokenPipeError -> RuntimeError    *)
(*   nondigit  the command ran, the exit code read back is not a number     *)
(* The shell is ready (at its prompt), busy (a command that timed out is    *)
(* still running under it) or dead (terminated).  At a ready shell the      *)
(* toolbox's own commands (pwd, test, cat, rm) return; under a busy shell a *)
(* round trip may return, time out again or read the old command's output   *)
(* in place of the exit code; a dead shell breaks the pipe.                 *)

NoneRC == -1          \* self.returncode = None

NoFail == [at |-> 0, kind |-> "none"]

Fails(n) ==
    IF shell = "dead" THEN {[at |-> 1, kind |-> "pipe"]}
    ELSE IF shell = "ready" THEN {NoFail}
    ELSE {NoFail} \cup {[at |-> k, kind |-> x] : k \in 1..n, x \in {"timeout", "nondigit"}}

\* a command of the agent's own may run longer than the timeout
ShellFails == Fails(1) \cup (IF shell = "ready" THEN {[at |-> 1, kind |-> "timeout"]} ELSE {})

\* the k-th round trip returned normally
Ok(fl, k) == fl.at = 0 \/ fl.at > k

\* the command of the k-th round trip was executed by the shell
Ran(fl, k) == Ok(fl, k) \/ (fl.at = k /\ fl.kind = "nondigit")

ExcOf(fl) == IF fl.kind = "timeout" THEN "TimeoutError" ELSE "RuntimeError"

ShellAfter(fl, used) ==
    IF fl.at = 0 \/ fl.at > used THEN (IF used = 0 THEN shell ELSE "ready")
    ELSE IF fl.kind = "timeout" THEN "busy"
    ELSE IF fl.kind = "pipe" THEN "dead"
    ELSE "ready"

\* What a tool hands back: the new editor, disk and working directory, the
\* session return code, the value returned (ret, a tag for the string) or
\* the exception raised (exc), the path it resolved, and the number of
\* round trips it started.
Result(ed, dk, wd, rc, ret, exc, path, used) ==
    [ed |-> ed, dk |-> dk, wd |-> wd, rc |-> rc, ret |-> ret, exc |-> exc,
     path |-> path, used |-> used]

\* the return code left by round trips 1..used, the last one leaving rc
RcAfter(fl, used, rc) == IF Ok(fl, used) THEN rc ELSE NoneRC

-----------------------------------------------------------------------------
(* The virtual editor and the file toolbox.  Each tool is given the call's  *)
(* arguments and fl, and reads the session state (editor, disk, cwd).       *)

Record(lines, page) == [lines |-> lines, page |-> page]

EdPut(ed, p, rec) == [q \in DOMAIN ed \cup {p} |-> IF q = p THEN rec ELSE ed[q]]

EdDel(ed, p) == [q \in DOMAIN ed \ {p} |-> ed[q]]

ErrText(msg) == Text(<<msg>>, "")

\* read_file: the output of  cat 'path'
read_file(dk, p) ==
    IF IsFile(dk, p) THEN dk[Canon(p)]
    ELSE ErrText("cat: No such file or directory")

\* file_exists normalises once more before  test -f
file_exists(dk, p) == IsFile(dk, make_abs_path(p))

\* the disk after  cat << 'DELIM' > path ...  has been executed
Heredoc(dk, p, c) ==
    IF check_syntax(c) /\ Writable(dk, p) THEN PutFile(dk, p, HeredocBody(c)) ELSE dk

HeredocRc(dk, p, c) ==
    IF ~check_syntax(c) \/ Writable(dk, p) THEN HeredocStatus(c) ELSE 1

\* open_file without the test for a path that is already open
open_file_Reopens(p, fl) ==
    LET path == ResolveArg(p, cwd)
        Failed(used) ==
            Result(editor, disk, cwd, RcAfter(fl, used, IF used = 1 THEN 0 ELSE 1),
                   "Failed to open file", "none", path, used)
    IN  IF ~Ok(fl, 1) THEN Failed(1)
        ELSE IF ~Ok(fl, 2) \/ ~file_exists(disk, path) THEN Failed(2)
        ELSE IF ~Ok(fl, 3) THEN Failed(3)
        ELSE Result(EdPut(editor, path, Record(read_file(disk, path), 0)),
                    disk, cwd, 0, "File opened in editor", "none", path, 3)

open_file(p, fl) ==
    LET path == ResolveArg(p, cwd)
        Failed(used) ==
            Result(editor, disk, cwd, RcAfter(fl, used, IF used = 1 THEN 0 ELSE 1),
                   "Failed to open file", "none", path, used)
    IN  IF ~Ok(fl, 1) THEN Failed(1)
        ELSE IF path \in DOMAIN editor THEN Failed(1)
        ELSE IF ~Ok(fl, 2) \/ ~file_exists(disk, path) THEN Failed(2)
        ELSE IF ~Ok(fl, 3) THEN Failed(3)
        ELSE Result(EdPut(editor, path, Record(read_file(disk, path), 0)),
                    disk, cwd, 0, "File opened in editor", "none", path, 3)

close_file(p, fl) ==
    LET path == ResolveArg(p, cwd)
    IN  IF ~Ok(fl, 1)
        THEN Result(editor, disk, cwd, NoneRC, "", ExcOf(fl), path, 1)
        ELSE IF path \in DOMAIN editor
        THEN Result(EdDel(editor, path), disk, cwd, 0, "Successfully closed file!",
                    "none", path, 1)
        ELSE Result(editor, disk, cwd, 0, "False, file not open in editor",
                    "none", path, 1)

\* write_file, its round trips numbered k+1, k+2, k+3, on editor ed and
\* disk dk.  Every failure leaves as Exception("Failed to write to file").
write_file_at(ed, dk, p, content, fl, k) ==
    LET path == ResolveArg(p, cwd)
        dk3  == IF Ran(fl, k + 3) THEN Heredoc(dk, path, content) ELSE dk
        rc3  == HeredocRc(dk, path, content)
        Raise(d, rc, used) ==
            Result(ed, d, cwd, RcAfter(fl, used, rc), "", "Exception", path, used)
    IN  IF ~Ok(fl, k + 1) THEN Raise(dk, 0, k + 1)
        ELSE IF ~Ok(fl, k + 2) THEN Raise(dk, 0, k + 2)
        ELSE IF ~file_exists(dk, path) THEN Raise(dk, 1, k + 2)
        ELSE IF ~Ok(fl, k + 3) THEN Raise(dk3, rc3, k + 3)
        ELSE IF rc3 = 1 THEN Raise(dk3, rc3, k + 3)
        ELSE IF path \notin DOMAIN ed THEN Raise(dk3, rc3, k + 3)   \* KeyError
        ELSE Result(EdPut(ed, path, Record(content, ed[path].page)), dk3, cwd, rc3,
                    "Successfully wrote to file", "none", path, k + 3)

write_file(p, content, fl) == write_file_at(editor, disk, p, content, fl, 0)

\* delete_file that forgets to drop the editor record
delete_file_KeepsRecord(p, fl) ==
    LET path == ResolveArg(p, cwd)
        dk3  == IF Ran(fl, 3) THEN RemoveFile(disk, path) ELSE disk
        Failed(d, rc, used) ==
            Result(editor, d, cwd, RcAfter(fl, used, rc),
                   "Failed to delete file", "none", path, used)
    IN  IF ~Ok(fl, 1) THEN Failed(disk, 0, 1)
        ELSE IF ~Ok(fl, 2) THEN Failed(disk, 0, 2)
        ELSE IF ~file_exists(disk, path) THEN Failed(disk, 1, 2)
        ELSE IF ~Ok(fl, 3) THEN Failed(dk3, 0, 3)
        ELSE Result(editor, dk3, cwd, 0,
                    "Successfully deleted file", "none", path, 3)

\* delete_file without the test for a file that exists
delete_file_NoExistCheck(p, fl) ==
    LET path == ResolveArg(p, cwd)
        dk3  == IF Ran(fl, 3) THEN RemoveFile(disk, path) ELSE disk
        Failed(d, rc, used) ==
            Result(editor, d, cwd, RcAfter(fl, used, rc),
                   "Failed to delete file", "none", path, used)
    IN  IF ~Ok(fl, 1) THEN Failed(disk, 0, 1)
        ELSE IF ~Ok(fl, 2) THEN Failed(disk, 0, 2)
        ELSE IF ~Ok(fl, 3) THEN Failed(dk3, 0, 3)
        ELSE Result(IF path \in DOMAIN editor THEN EdDel(editor, path) ELSE editor,
                    dk3, cwd, 0, "Successfully deleted file", "none", path, 3)

delete_file(p, fl) ==
    LET path == ResolveArg(p, cwd)
        dk3  == IF Ran(fl, 3) THEN RemoveFile(disk, path) ELSE disk
        Failed(d, rc, used) ==
            Result(editor, d, cwd, RcAfter(fl, used, rc),
                   "Failed to delete file", "none", path, used)
    IN  IF ~Ok(fl, 1) THEN Failed(disk, 0, 1)
        ELSE IF ~Ok(fl, 2) THEN Failed(disk, 0, 2)
        ELSE IF ~file_exists(disk, path) THEN Failed(disk, 1, 2)
        ELSE IF ~Ok(fl, 3) THEN Failed(dk3, 0, 3)
        ELSE Result(IF path \in DOMAIN editor THEN EdDel(editor, path) ELSE editor,
                    dk3, cwd, 0, "Successfully deleted file", "none", path, 3)

\* create_file without the test for a file that exists
create_file_Overwrites(p, content, fl) ==
    LET path == ResolveArg(p, cwd)
        dk3  == IF Ran(fl, 3) THEN Heredoc(disk, path, content) ELSE disk
        rc3  == HeredocRc(disk, path, content)
        Failed(d, rc, used) ==
            Result(editor, d, cwd, RcAfter(fl, used, rc),
                   "Failed to create file", "none", path, used)
    IN  IF ~Ok(fl, 1) THEN Failed(disk, 0, 1)
        ELSE IF ~Ok(fl, 2) THEN Failed(disk, 0, 2)
        ELSE IF ~Ok(fl, 3) THEN Failed(dk3, rc3, 3)
        ELSE IF ~Ok(fl, 4) THEN Failed(dk3, 0, 4)
        ELSE IF ~file_exists(dk3, path) THEN Failed(dk3, 1, 4)
        ELSE Result(EdPut(editor, path, Record(content, 0)), dk3, cwd, 0,
                    "Successfully created file", "none", path, 4)

create_file(p, content, fl) ==
    LET path == ResolveArg(p, cwd)
        dk3  == IF Ran(fl, 3) THEN Heredoc(disk, path, content) ELSE disk
        rc3  == HeredocRc(disk, path, content)
        Failed(d, rc, used) ==
            Result(editor, d, cwd, RcAfter(fl, used, rc),
                   "Failed to create file", "none", path, used)
    IN  IF ~Ok(fl, 1) THEN Failed(disk, 0, 1)
        ELSE IF ~Ok(fl, 2) THEN Failed(disk, 0, 2)
        ELSE IF file_exists(disk, path) THEN Failed(disk, 0, 2)
        ELSE IF ~Ok(fl, 3) THEN Failed(dk3, rc3, 3)
        ELSE IF ~Ok(fl, 4) THEN Failed(dk3, 0, 4)
        ELSE IF ~file_exists(dk3, path) THEN Failed(dk3, 1, 4)
        ELSE Result(EdPut(editor, path, Record(content, 0)), dk3, cwd, 0,
                    "Successfully created file", "none", path, 4)

\* The three scroll tools share their opening: resolve, test -f, is open.
\* new_page gives, for each open path, the page its tool moves to.
Scroll(p, fl, new_page, msg) ==
    LET path == ResolveArg(p, cwd)
        Raise(e, rc, used) ==
            Result(editor, disk, cwd, RcAfter(fl, used, rc), "", e, path, used)
    IN  IF ~Ok(fl, 1) THEN Raise(ExcOf(fl), 0, 1)
        ELSE IF ~Ok(fl, 2) THEN Raise(ExcOf(fl), 0, 2)
        ELSE IF ~file_exists(disk, path) THEN Raise("Exception", 1, 2)
        ELSE IF path \notin DOMAIN editor THEN Raise("Exception", 0, 2)
        ELSE IF new_page[path] < 0 THEN Raise("Exception", 0, 2)
        ELSE Result(EdPut(editor, path,
                          Record(editor[path].lines, new_page[path])),
                    disk, cwd, 0, msg, "none", path, 2)

scroll_down(p, fl) ==
    LET NewPage(rec) ==
            LET last_page_idx == LineCount(rec.lines) \div PAGE_SIZE
            IN  IF rec.page = last_page_idx THEN last_page_idx ELSE rec.page + 1
    IN  Scroll(p, fl, [k \in DOMAIN editor |-> NewPage(editor[k])],
               "Scrolled down in file")

scroll_up(p, fl) ==
    LET NewPage(rec) == IF rec.page = 0 THEN 0 ELSE rec.page - 1
    IN  Scroll(p, fl, [k \in DOMAIN editor |-> NewPage(editor[k])],
               "Scrolled up in file")

\* scroll_to_line that counts lines from 0
scroll_to_line_ZeroBased(p, line_number, fl) ==
    LET NewPage(rec) ==
            IF line_number < 1 \/ line_number > LineCount(rec.lines) THEN -1
            ELSE line_number \div PAGE_SIZE
    IN  Scroll(p, fl, [k \in DOMAIN editor |-> NewPage(editor[k])],
               "Scrolled to window containing line")

\* an invalid line number raises: new page -1
scroll_to_line(p, line_number, fl) ==
    LET NewPage(rec) ==
            IF line_number < 1 \/ line_number > LineCount(rec.lines) THEN -1
            ELSE (line_number - 1) \div PAGE_SIZE
    IN  Scroll(p, fl, [k \in DOMAIN editor |-> NewPage(editor[k])],
               "Scrolled to window containing line")

get_cwd(fl) ==
    IF ~Ok(fl, 1) THEN Result(editor, disk, cwd, NoneRC, "", ExcOf(fl), <<>>, 1)
    ELSE Result(editor, disk, cwd, 0, "pwd output", "none", <<>>, 1)

no_op == Result(editor, disk, cwd, returncode, "No Action Taken", "none", <<>>, 0)

\* refresh_editor, then get_cwd (get_state).  order lists the editor's keys
\* in dictionary order; the i-th key is read by round trip i.
RECURSIVE refresh_from(_, _, _, _)
refresh_from(ed, order, i, fl) ==
    IF i > Len(order)
    THEN IF ~Ok(fl, i)
         THEN Result(ed, disk, cwd, NoneRC, "", ExcOf(fl), <<>>, i)
         ELSE Result(ed, disk, cwd, 0, "state", "none", <<>>, i)
    ELSE LET path == make_abs_path(order[i])
         IN  IF ~Ok(fl, i)
             THEN Result(ed, disk, cwd, NoneRC, "", ExcOf(fl), path, i)
             ELSE IF path \notin DOMAIN ed
             THEN Result(ed, disk, cwd, 0, "", "KeyError", path, i)
             ELSE refresh_from(EdPut(ed, path, Record(read_file(disk, path), ed[path].page)),
                               order, i + 1, fl)

get_state(order, fl) == refresh_from(editor, order, 1, fl)

\* submit: defines the shell function submit and calls it; the function
\* changes to $ROOT (the repo root), stages the tree and prints the patch
\* between the sentinels.
submit(fl) ==
    IF ~Ok(fl, 1) THEN Result(editor, disk, cwd, NoneRC, "", ExcOf(fl), <<>>, 1)
    ELSE Result(editor, disk, file_root, 0, "submit output", "none", <<>>, 1)

\* The tools that only read: the number of shell round trips each makes.
SearchTrips(verb) ==
    IF verb \in {"find_function", "find_class"} THEN 0
    ELSE IF verb \in {"find_file", "search_file"} THEN 1
    ELSE 2                                   \* search_dir, list_dirs_recursive

search_tool(verb, p, fl) ==
    LET n    == SearchTrips(verb)
        path == ResolveArg(p, cwd)
    IN  IF ~Ok(fl, n)
        THEN Result(editor, disk, cwd, NoneRC, "", ExcOf(fl), path, fl.at)
        ELSE IF verb = "search_file" /\ path \notin DOMAIN editor
        THEN Result(editor, disk, cwd, 0, "", "Exception", path, n)
        ELSE Result(editor, disk, cwd, IF n = 0 THEN returncode ELSE 0,
                    "search output", "none", path, n)

\* A command the toolbox does not know goes to the shell as it is.
\* cmd is what the shell does with it: cd, rm, sleep and echo are commands
\* of the container; any other verb is not found (127).
RawEffect(cmd) ==
    IF cmd.verb = "cd" THEN [dk |-> disk, wd |-> cmd.arg, rc |-> 0, out |-> "shell output"]
    ELSE IF cmd.verb = "rm"
    THEN [dk |-> RemoveFile(disk, cmd.arg), wd |-> cwd,
          rc |-> IF IsFile(disk, cmd.arg) THEN 0 ELSE 1, out |-> "shell output"]
    ELSE IF cmd.verb = "echo"
    THEN [dk |-> disk, wd |-> cwd, rc |-> 0, out |-> cmd.arg]
    ELSE IF cmd.verb \in {"sleep", "python"}
    THEN [dk |-> disk, wd |-> cwd, rc |-> 0, out |-> "shell output"]
    ELSE [dk |-> disk, wd |-> cwd, rc |-> 127, out |-> "command not found"]

\* communicate: every input but "exit" is checked and run by the shell;
\* "exit" terminates the container process and reports return code 0.
raw_shell(cmd, fl) ==
    LET e == RawEffect(cmd)
    IN  IF cmd.verb = "exit"
        THEN Result(editor, disk, cwd, 0, "", "none", <<>>, 0)
        ELSE IF ~Ok(fl, 1)
        THEN Result(editor, IF Ran(fl, 1) THEN e.dk ELSE disk,
                    IF Ran(fl, 1) THEN e.wd ELSE cwd, NoneRC, "", ExcOf(fl), <<>>, 1)
        ELSE Result(editor, e.dk, e.wd, e.rc, e.out, "none", <<>>, 1)

\* communicate("submit") of the exit_* actions: the shell runs the command
\* submit if one is installed or defined (out: its output), else reports
\* that it is not found.
shell_submit(out, fl) ==
    IF ~Ok(fl, 1) THEN Result(editor, disk, cwd, NoneRC, "", ExcOf(fl), <<>>, 1)
    ELSE IF out = "command not found"
    THEN Result(editor, disk, cwd, 127, out, "none", <<>>, 1)
    ELSE Result(editor, disk, file_root, 0, out, "none", <<>>, 1)

-----------------------------------------------------------------------------
(* The diff commit.  A diff blob is the list of its file blocks            *)
(* [src_file, tgt_file, removed, added]; removed is the anchor (the context *)
(* and removed lines), added is what replaces it.                          *)

FileDiff(src, tgt, removed, added) ==
    [src_file |-> src, tgt_file |-> tgt, removed |-> removed, added |-> added]

\* places where the anchor matches the lines L
Anchors(L, removed) ==
    {i \in 1..(Len(L) - Len(removed) + 1) : SubSeq(L, i, i + Len(removed) - 1) = removed}

\* apply_file_context_diffs for one file block: the block applies iff its
\* anchor matches exactly one place.
apply_file_context_diffs(src_content, fd) ==
    LET L == Lines(src_content)
        A == Anchors(L, fd.removed)
    IN  IF Cardinality(A) = 1
        THEN LET i == CHOOSE j \in A : TRUE
             IN  [ok |-> TRUE, path |-> fd.tgt_file, old |-> src_content,
                  new |-> JoinLines(SubSeq(L, 1, i - 1) \o fd.added
                                    \o SubSeq(L, i + Len(fd.removed), Len(L)))]
        ELSE [ok |-> FALSE, path |-> fd.tgt_file, old |-> src_content,
              new |-> src_content]

\* test -e path
PathExists(dk, p) == IsFile(dk, p) \/ Canon(p) \in Dirs

\* A file block that gives no source (or target) path carries None or the
\* empty string there; both are false in  not (src_file or tgt_file).
NonePath == <<"None">>

Missing(p) == p = <<>> \/ p = NonePath

\* apply_diff: four round trips per file block (test -e for source and
\* target, pwd, cat of the source), numbered from k+1.
RECURSIVE apply_diff(_, _, _)
apply_diff(diffs, k, fl) ==
    IF diffs = <<>> THEN [exc |-> "none", results |-> <<>>, used |-> k]
    ELSE
    LET fd  == Head(diffs)
        src == make_abs_path(fd.src_file)
        Raise(e, used) == [exc |-> e, results |-> <<>>, used |-> used]
    IN  IF ~(~Missing(fd.src_file) \/ ~Missing(fd.tgt_file))
        THEN Raise("Hallucination", k)
        ELSE IF fd.src_file = NonePath \/ fd.tgt_file = NonePath
        THEN Raise("AttributeError", k)            \* None.strip in make_abs_path
        ELSE IF ~Ok(fl, k + 1) THEN Raise(ExcOf(fl), k + 1)
        ELSE IF ~Ok(fl, k + 2) THEN Raise(ExcOf(fl), k + 2)
        ELSE IF ~Ok(fl, k + 3) THEN Raise(ExcOf(fl), k + 3)
        ELSE IF ~PathExists(disk, src) THEN Raise("Exception", k + 3)
        ELSE IF ~Ok(fl, k + 4) THEN Raise(ExcOf(fl), k + 4)
        ELSE LET here == apply_file_context_diffs(
                             read_file(disk, ResolveArg(fd.src_file, cwd)),
                             [fd EXCEPT !.src_file = ResolveArg(fd.src_file, cwd),
                                        !.tgt_file = ResolveArg(fd.tgt_file, cwd)])
                 rest == apply_diff(Tail(diffs), k + 4, fl)
             IN  [exc |-> rest.exc, results |-> <<here>> \o rest.results,
                  used |-> rest.used]

\* the check looks for a segment the paths of the repository never have
check_path_for_tests_WrongSegment(p) ==
    \E i \in 1..Len(p) :
        StartsWith(SubSeq(p, i, Len(p)), <<"/", "t", "e", "s", "t", "/">>)

\* "/tests/" in file_path
check_path_for_tests(p) ==
    \E i \in 1..Len(p) :
        StartsWith(SubSeq(p, i, Len(p)), <<"/", "t", "e", "s", "t", "s", "/">>)

\* The loop of real_write_diff over the files that applied, from the i-th,
\* with the editor and disk as the earlier files left them.
RECURSIVE commit_from(_, _, _, _, _, _, _)
commit_from(successes, i, ed, dk, rc, k, fl) ==
    IF i > Len(successes)
    THEN Result(ed, dk, cwd, rc, "Successfully edited file(s)", "none",
                IF successes = <<>> THEN <<>> ELSE successes[Len(successes)].path, k)
    ELSE
    LET r == successes[i]
        w == write_file_at(ed, dk, r.path, r.new, fl, k)
    IN  IF ~Compiles(r.new)
        THEN Result(ed, dk, cwd, rc, "Error applying diff", "none", r.path, k)
        ELSE IF check_path_for_tests(r.path)
        THEN Result(ed, dk, cwd, rc, "Error applying diff: tried to edit tests",
                    "none", r.path, k)
        ELSE IF r.path \notin DOMAIN ed
        THEN Result(ed, dk, cwd, rc, "", "KeyError", r.path, k)
        ELSE IF w.exc # "none"
        THEN Result(w.ed, w.dk, cwd, w.rc, "", w.exc, r.path, w.used)
        ELSE IF ed[r.path].lines = w.ed[r.path].lines
        THEN Result(w.ed, w.dk, cwd, w.rc, "", "AssertionError", r.path, w.used)
        ELSE commit_from(successes, i + 1, w.ed, w.dk, w.rc, w.used, fl)

\* real_write_diff once apply_diff has returned a
write_results(a, fl) ==
    LET failures == {i \in 1..Len(a.results) : ~a.results[i].ok}
        rc == IF Ok(fl, a.used) THEN 0 ELSE NoneRC
    IN  IF a.exc # "none"
        THEN Result(editor, disk, cwd, rc, "", a.exc, <<>>, a.used)
        ELSE IF failures # {}
        THEN Result(editor, disk, cwd, rc, "Failed to edit file", "none",
                    a.results[CHOOSE i \in failures : TRUE].path, a.used)
        ELSE commit_from(a.results, 1, editor, disk, rc, a.used, fl)

real_write_diff(diffs, fl) ==
    CHOOSE out \in {write_results(a, fl) : a \in {apply_diff(diffs, 0, fl)}} : TRUE

-----------------------------------------------------------------------------
(* The dispatcher and step *)

Obs(type, text) == [type |-> type, text |-> text]

\* exceptions whose args are empty: e.args[0] raises IndexError
NoArgs == {"AssertionError"}

\* the list without find_file
fn_names_NoFindFile ==
    {"list_dirs_recursive", "close_file", "create_file", "open_file",
     "search_dir", "find_function", "find_class", "search_file", "get_cwd",
     "delete_file", "submit", "no_op", "scroll_up", "scroll_down",
     "scroll_to_line"}

\* the tools parse_command_to_function looks a verb up in
fn_names ==
    {"list_dirs_recursive", "close_file", "create_file", "open_file",
     "search_dir", "find_function", "find_class", "search_file", "get_cwd",
     "delete_file", "submit", "no_op", "scroll_up", "scroll_down",
     "scroll_to_line", "find_file"}

\* the dispatcher without the test on python
Route_PythonAllowed(fn_name, nlines) ==
    IF fn_name \in {"vim", "nano"} THEN "rejected"
    ELSE IF fn_name = "edit_file" THEN "edit"
    ELSE IF fn_name \in fn_names THEN "tool"
    ELSE "shell"

\* Where parse_command_to_function sends an action, from its first word
\* and the number of its non-empty lines.
Route(fn_name, nlines) ==
    IF fn_name \in {"vim", "nano"} THEN "rejected"
    ELSE IF fn_name = "python" /\ nlines # 1 THEN "rejected"
    ELSE IF fn_name = "edit_file" THEN "edit"
    ELSE IF fn_name \in fn_names THEN "tool"
    ELSE "shell"

\* the outcome of a rejected action: nothing is run
Rejected ==
    Result(editor, disk, cwd, returncode, "Interactive Commands are not allowed",
           "none", <<>>, 0)

\* parse_command_to_function on the outcome r of what the action was routed
\* to (kind).  Gives the value returned and the exception that leaves the
\* dispatcher.
parse_command_to_function(kind, r) ==
    IF r.exc = "none" THEN [obs |-> Obs("str", r.ret), raised |-> "none"]
    ELSE IF kind = "shell" THEN [obs |-> Obs("None", ""), raised |-> "none"]
    ELSE IF r.exc \in NoArgs THEN [obs |-> Obs("str", ""), raised |-> "IndexError"]
    ELSE [obs |-> Obs("str", r.exc), raised |-> "none"]

\* interrupt: kill the children, drain, health check
interrupt(sh) == [shell |-> "ready", exc |-> IF sh = "dead" THEN "RuntimeError" ELSE "none"]

\* The pieces of an output, where the sentinels are pieces of their own.
Chunks(text) ==
    IF text = "submit output" THEN <<"<<SUBMISSION||", "patch", "||SUBMISSION>>">>
    ELSE IF text = "empty submission" THEN <<"<<SUBMISSION||", "||SUBMISSION>>">>
    ELSE IF text = "opening sentinel only" THEN <<"<<SUBMISSION||", "patch">>
    ELSE <<text>>

\* get_submission: re.search of <<SUBMISSION||(.*)||SUBMISSION>> with DOTALL:
\* from the first opening sentinel to the last closing one after it; body
\* is the text between ("" when they are adjacent).
get_submission(obs) ==
    LET c      == Chunks(obs.text)
        opens  == {i \in 1..Len(c) : c[i] = "<<SUBMISSION||"}
        closes == {j \in 1..Len(c) : c[j] = "||SUBMISSION>>"}
        pairs  == {pr \in opens \X closes : pr[1] < pr[2]}
    IN  IF pairs = {} THEN [found |-> FALSE, body |-> ""]
        ELSE LET i == CHOOSE x \in opens : \A y \in opens : x <= y
                 j == CHOOSE x \in closes : \A y \in closes : y <= x
             IN  [found |-> TRUE, body |-> IF j = i + 1 THEN "" ELSE c[i + 1]]

HasSubmission(obs) == get_submission(obs).found

\* info.submission: absent, None or a string
Absent == Obs("absent", "")

StepOut(obs, done, status, submission, escaped, sh, intr, reset) ==
    [observation |-> obs, done |-> done, exit_status |-> status,
     submission |-> submission, escaped |-> escaped, shell |-> sh,
     interrupted |-> intr, container_reset |-> reset]

\* f"submitted ({action})"
SubmittedBy(action) ==
    IF action = "exit_context" THEN "submitted (exit_context)"
    ELSE IF action = "exit_cost" THEN "submitted (exit_cost)"
    ELSE IF action = "exit_error" THEN "submitted (exit_error)"
    ELSE IF action = "exit_format" THEN "submitted (exit_format)"
    ELSE "submitted (exit_api)"

ExitActions == {"exit_context", "exit_cost", "exit_error", "exit_format", "exit_api"}

\* the except branch leaves without a status
step_reserved_NoStatus(action, r, sh) ==
    LET sub == get_submission(Obs("str", r.ret))
    IN  IF action = "skip"
        THEN StepOut(Obs("str", "Skipped"), TRUE, "skipped", Absent, "none", sh, FALSE, FALSE)
        ELSE IF r.exc = "none" /\ sub.found /\ sub.body # ""
        THEN StepOut(Obs("str", "Exited (autosubmitted)"), TRUE, SubmittedBy(action),
                     Obs("str", sub.body), "none", sh, FALSE, FALSE)
        ELSE StepOut(Obs("str", "Exited"), TRUE, "", Absent, "none", sh, FALSE, FALSE)

\* the except branch returns done = false
step_reserved_NotDone(action, r, sh) ==
    LET sub == get_submission(Obs("str", r.ret))
    IN  IF action = "skip"
        THEN StepOut(Obs("str", "Skipped"), TRUE, "skipped", Absent, "none", sh, FALSE, FALSE)
        ELSE IF r.exc = "none" /\ sub.found /\ sub.body # ""
        THEN StepOut(Obs("str", "Exited (autosubmitted)"), TRUE, SubmittedBy(action),
                     Obs("str", sub.body), "none", sh, FALSE, FALSE)
        ELSE StepOut(Obs("str", "Exited"), FALSE, action, Absent, "none", sh, FALSE, FALSE)

\* step on a reserved action: skip returns at once; an exit_* action runs
\* communicate("submit") (outcome r) and returns done in both branches.
step_reserved(action, r, sh) ==
    LET sub == get_submission(Obs("str", r.ret))
    IN  IF action = "skip"
        THEN StepOut(Obs("str", "Skipped"), TRUE, "skipped", Absent, "none", sh, FALSE, FALSE)
        ELSE IF r.exc = "none" /\ sub.found /\ sub.body # ""
        THEN StepOut(Obs("str", "Exited (autosubmitted)"), TRUE, SubmittedBy(action),
                     Obs("str", sub.body), "none", sh, FALSE, FALSE)
        ELSE StepOut(Obs("str", "Exited"), TRUE, action, Absent, "none", sh, FALSE, FALSE)

\* step on a non-reserved action: what it returns (or lets escape) given the
\* dispatcher's outcome d and the shell as the tool left it.
step(d, sh) ==
    LET AfterTry(obs, sh2, intr) ==
            IF obs.type # "str"
            THEN StepOut(Obs("none", ""), FALSE, "", Absent, "AssertionError", sh2, intr, FALSE)
            ELSE IF get_submission(obs).found
            THEN LET body == get_submission(obs).body
                     sub  == IF body # "" THEN Obs("str", body) ELSE Obs("None", "")
                 IN  StepOut(sub, TRUE, "submitted", sub, "none", sh2, intr, FALSE)
            ELSE StepOut(obs, FALSE, "", Absent, "none", sh2, intr, FALSE)
    IN  IF d.raised = "none" THEN AfterTry(d.obs, sh, FALSE)
        ELSE IF d.raised = "TimeoutError"
        THEN IF interrupt(sh).exc = "none"
             THEN AfterTry(Obs("str", "EXECUTION TIMED OUT"), interrupt(sh).shell, TRUE)
             ELSE StepOut(Obs("str", "EXECUTION TIMED OUT AND INTERRUPT FAILED. RESTARTING PROCESS."),
                          TRUE, "early_exit", Absent, "none", "ready", TRUE, TRUE)
        ELSE IF d.raised = "RuntimeError"
        THEN StepOut(Obs("str", "COMMAND FAILED TO EXECUTE. RESTARTING PROCESS."),
                     TRUE, "early_exit", Absent, "none", "ready", FALSE, TRUE)
        ELSE IF d.raised = "BrokenPipeError"
        THEN StepOut(Obs("str", "BROKEN PIPE ERROR. RESTARTING PROCESS."),
                     TRUE, "early_exit", Absent, "none", "ready", FALSE, TRUE)
        ELSE AfterTry(Obs("str", "EXECUTION FAILED OR COMMAND MALFORMED"), sh, FALSE)

\* the failure that happened during the call, if any
Happened(fl, used) == IF fl.at = 0 \/ fl.at > used THEN "none" ELSE fl.kind

\* paths whose latest successful call opened or created them
Flag(op, r) ==
    IF r.ret \in {"File opened in editor", "Successfully created file"}
    THEN flagged \cup {r.path}
    ELSE IF r.ret \in {"Successfully closed file!", "Successfully deleted file"}
    THEN flagged \ {r.path}
    ELSE flagged

\* the files of the disk, and the records of the editor, that r changes
ChangedFiles(r) ==
    {q \in DOMAIN disk \cup DOMAIN r.dk :
        (q \in DOMAIN disk) # (q \in DOMAIN r.dk)
        \/ (q \in DOMAIN disk /\ q \in DOMAIN r.dk /\ disk[q] # r.dk[q])}

ChangedRecords(r) ==
    {q \in DOMAIN editor \cup DOMAIN r.ed :
        (q \in DOMAIN editor) # (q \in DOMAIN r.ed)
        \/ (q \in DOMAIN editor /\ q \in DOMAIN r.ed /\ editor[q] # r.ed[q])}

\* what apply_diff made of the blocks of a diff: for each block that was
\* applied, its resolved path, whether it applied, whether the result parses
BlocksOf(diffs, fl) ==
    CHOOSE blocks \in
        {[i \in 1..Len(res) |->
            [path |-> res[i].path, ok |-> res[i].ok, parses |-> Compiles(res[i].new)]]
         : res \in {apply_diff(diffs, 0, fl).results}} : TRUE

\* The record of one call: the session after it (disk', editor', ...) and
\* what the caller got back (call').
Return(op, route, arg, r, fl, s, blocks) ==
    /\ UNCHANGED limit
    /\ nsteps' = nsteps + 1
    /\ disk' = r.dk
    /\ editor' = r.ed
    /\ cwd' = r.wd
    /\ returncode' = r.rc
    /\ shell' = IF op = "exit" THEN "dead" ELSE s.shell
    /\ flagged' = Flag(op, r)
    /\ fpath' = arg
    /\ abs_path' = r.path
    /\ call' = [op |-> op, via |-> IF route \in {"direct", "session"} THEN route ELSE "step",
                route |-> route, input |-> arg, blocks |-> blocks,
                ret |-> r.ret, exc |-> r.exc, trips |-> r.used,
                failure |-> Happened(fl, r.used),
                existed |-> IsFile(disk, r.path),
                was_open |-> r.path \in DOMAIN editor,
                page_before |-> IF r.path \in DOMAIN editor
                                THEN editor[r.path].page ELSE -1,
                disk_changed |-> r.dk # disk,
                editor_changed |-> r.ed # editor,
                files |-> ChangedFiles(r), records |-> ChangedRecords(r),
                returned |-> s.returned, raised |-> s.raised,
                observation |-> s.observation, done |-> s.done,
                exit_status |-> s.exit_status, submission |-> s.submission,
                escaped |-> s.escaped,
                interrupted |-> s.interrupted,
                container_reset |-> s.container_reset]

\* What step hands back to its caller, with what the dispatcher returned.
Handed(s, returned, raised) ==
    [observation |-> s.observation, done |-> s.done,
     exit_status |-> s.exit_status, submission |-> s.submission,
     escaped |-> s.escaped, shell |-> s.shell,
     interrupted |-> s.interrupted, container_reset |-> s.container_reset,
     returned |-> returned, raised |-> raised]

\* The episode ends with the step that returns done, or at its limit.
\* One call of step(action) on a non-reserved action whose first word is
\* op and which has nlines non-empty lines: the dispatcher routes it to the
\* tool (outcome tool_r) or to the shell (outcome shell_r), step wraps what
\* the dispatcher returns.
StepCore(op, nlines, arg, tool_r, shell_r, fl) ==
    /\ nsteps < limit
    /\ ~call.done
    /\ \E route \in {Route(op, nlines)} :
       \E r \in {IF route = "rejected" THEN Rejected
                 ELSE IF route = "shell" THEN shell_r
                 ELSE tool_r} :
       \E d \in {parse_command_to_function(route, r)} :
       \E s \in {step(d, ShellAfter(fl, r.used))} :
       \E blocks \in {IF op = "edit_file" THEN BlocksOf(arg, fl) ELSE <<>>} :
           Return(op, route, arg, r, fl, Handed(s, d.obs, d.raised), blocks)

Step(op, nlines, arg, tool_r, shell_r, fl) ==
    /\ StepCore(op, nlines, arg, tool_r, shell_r, fl)
    /\ UNCHANGED <<session, helper>>

\* the shell's outcome for an action whose first word it does not know
NotFound(op, fl) == raw_shell([verb |-> op, arg |-> <<>>], fl)

\* One call of step(action) on a reserved action.
Reserved(action, submit_r, fl) ==
    /\ nsteps < limit
    /\ ~call.done
    /\ \E r \in {submit_r} :
       \E s \in {step_reserved(action, r, ShellAfter(fl, r.used))} :
           /\ Return(action, "reserved", <<>>, r, fl, Handed(s, Absent, "none"), <<>>)
           /\ UNCHANGED <<session, helper>>

\* One call of a method of the session from outside step.
Direct(op, arg, method_r, fl) ==
    /\ nsteps < limit
    /\ ~call.done
    /\ \E r \in {method_r} :
           /\ Return(op, "direct", arg, r, fl,
                [observation |-> Obs("str", r.ret), done |-> FALSE,
                 exit_status |-> "", submission |-> Absent,
                 escaped |-> r.exc, shell |-> ShellAfter(fl, r.used),
                 interrupted |-> FALSE, container_reset |-> FALSE,
                 returned |-> Absent, raised |-> "none"],
                <<>>)
           /\ UNCHANGED <<session, helper>>

-----------------------------------------------------------------------------
(* Inputs *)

In_a    == <<"a">>
In_q    == <<"'", "a", "'">>
In_b    == <<"b">>
In_c    == <<"c">>
In_out  == <<"/", "e", "/", "p">>
In_dots == <<".", ".", "/", "e", "/", "p">>
In_n    == <<"n", "/", "a">>
In_t    == <<"t", "e", "s", "t", "s", "/", "t">>

PathInputs == {In_a, In_b, In_c, In_out, In_dots}

OneLine   == Text(<<"x">>, "")                      \* "x\n"
NoNewline == Text(<<>>, "y")                        \* "y"
WithDelim == Text(<<"x", "DELIM", "y">>, "")        \* "x\nDELIM\ny\n"
BigLines  == [i \in 1..(PAGE_SIZE + 1) |-> "x"]
Big       == Text(BigLines, "")

ContentInputs == {OneLine, NoNewline, WithDelim}

LineNumbers == {0, 1, PAGE_SIZE, PAGE_SIZE + 1}

EditA      == FileDiff(In_a, In_a, <<"x">>, <<"y">>)
BreakA     == FileDiff(In_a, In_a, <<"x">>, <<"(">>)
ShrinkB    == FileDiff(In_b, In_b, BigLines, <<"y">>)
BreakB     == FileDiff(In_b, In_b, BigLines, <<"(">>)
AmbiguousB == FileDiff(In_b, In_b, <<"x">>, <<"y">>)
DelimA     == FileDiff(In_a, In_a, <<"x">>, <<"[", "DELIM", "]">>)
EditT      == FileDiff(In_t, In_t, <<"x">>, <<"y">>)
BreakT     == FileDiff(In_t, In_t, <<"x">>, <<"(">>)
AmbiguousT == FileDiff(In_t, In_t, <<"z">>, <<"y">>)
NoSrcA     == FileDiff(<<>>, In_a, <<"x">>, <<"y">>)
NoTgtA     == FileDiff(In_a, NonePath, <<"x">>, <<"y">>)
NoPaths    == FileDiff(<<>>, NonePath, <<"x">>, <<"y">>)

DiffInputs ==
    { <<EditA>>, <<BreakA>>, <<ShrinkB>>, <<AmbiguousB>>,
      <<EditA, BreakB>>, <<EditA, AmbiguousB>>, <<EditA, ShrinkB>>,
      <<DelimA>>, <<EditT>>, <<BreakT>>, <<AmbiguousT>>, <<EditA, EditT>>,
      <<NoSrcA>>, <<NoTgtA>>, <<NoPaths>>, <<EditA, NoPaths>> }

WorkDirs == { <<"/">>, file_root, <<"/", "e">> }

\* what the agent may have the shell print
EchoTexts == {"submit output", "empty submission", "opening sentinel only"}

ShellCommands ==
    {[verb |-> "cd", arg |-> d] : d \in WorkDirs}
    \cup {[verb |-> "rm", arg |-> q] : q \in DOMAIN disk}
    \cup {[verb |-> "sleep", arg |-> <<>>], [verb |-> "exit", arg |-> <<>>]}
    \cup {[verb |-> "echo", arg |-> t] : t \in EchoTexts}

\* what the command submit prints when an exit_* action runs it
SubmitOutputs == {"submit output", "empty submission", "command not found"}

SearchVerbs ==
    {"search_dir", "search_file", "find_file", "find_function", "find_class",
     "list_dirs_recursive"}

Orders(S) ==
    {o \in [1..Cardinality(S) -> S] : \A i, j \in 1..Cardinality(S) : o[i] = o[j] => i = j}

-----------------------------------------------------------------------------
(* The session after reset(task) *)

InitialDisk ==
    [q \in {<<"/", "r", "/", "a">>, <<"/", "r", "/", "b">>, <<"/", "e", "/", "p">>,
            tests_dir \o <<"/", "t">>} |->
        IF q = <<"/", "r", "/", "b">> THEN Big ELSE OneLine]

NoCall ==
    [op |-> "reset", via |-> "direct", route |-> "direct", input |-> <<>>,
     blocks |-> <<>>, ret |-> "", exc |-> "none", trips |-> 0, failure |-> "none",
     existed |-> FALSE, was_open |-> FALSE, page_before |-> -1,
     disk_changed |-> FALSE,
     editor_changed |-> FALSE, files |-> {}, records |-> {},
     returned |-> Absent, raised |-> "none",
     observation |-> Obs("str", ""), done |-> FALSE, exit_status |-> "",
     submission |-> Absent,
     escaped |-> "none", interrupted |-> FALSE, container_reset |-> FALSE]

-----------------------------------------------------------------------------
(* The shell bridge by round trips.  An input is the list of its lines:     *)
(*   true    a command that succeeds            false  one that fails (1)   *)
(*   rm      rm -f of the file a of the repository                          *)
(*   (       a line the shell cannot parse      sleep  runs past the timeout *)
(*   EOF     the word EOF alone on its line     exit   the input "exit"     *)

RepoFile == file_root \o <<"/", "a">>

\* index of the first line EOF of the input, 0 when it has none
EofAt(input) ==
    LET hits == {i \in 1..Len(input) : input[i] = "EOF"}
    IN  IF hits = {} THEN 0 ELSE CHOOSE i \in hits : \A j \in hits : i <= j

\* /bin/bash -n <<'EOF' \n input \n EOF: the here-document that bash -n
\* reads ends at the first line EOF
CheckBody(input) ==
    IF EofAt(input) = 0 THEN input ELSE SubSeq(input, 1, EofAt(input) - 1)

\* and the lines after it, the closing EOF last, are commands of the shell
CheckRest(input) ==
    IF EofAt(input) = 0 THEN <<>>
    ELSE SubSeq(input, EofAt(input) + 1, Len(input)) \o <<"EOF">>

\* exit status of bash -n
ParseStatus(L) == IF \E i \in 1..Len(L) : L[i] = "(" THEN 2 ELSE 0

\* exit status of one command line: EOF is not a command (127)
LineStatus(l) == IF l = "false" THEN 1 ELSE IF l = "EOF" THEN 127 ELSE 0

\* echo $? after the lines L, s0 when there are none
StatusAfter(L, s0) == IF L = <<>> THEN s0 ELSE LineStatus(L[Len(L)])

\* the disk after the shell has executed the lines L
RunLines(dk, L) ==
    IF \E i \in 1..Len(L) : L[i] = "rm" THEN RemoveFile(dk, RepoFile) ELSE dk

\* the lines run before the one that outlasts the timeout
BeforeSleep(L) ==
    LET hits == {i \in 1..Len(L) : L[i] = "sleep"}
    IN  IF hits = {} THEN L
        ELSE SubSeq(L, 1, (CHOOSE i \in hits : \A j \in hits : i <= j) - 1)

\* how a round trip on the shell sh that executes the lines L may end
Ways(sh, L) ==
    IF sh = "dead" THEN {"pipe"}
    ELSE IF sh = "ready"
    THEN (IF \E i \in 1..Len(L) : L[i] = "sleep" THEN {"timeout"} ELSE {"ok"})
    ELSE {"ok", "timeout", "nondigit"}

Trip(rc, exc, dk, executed, sh) ==
    [rc |-> rc, exc |-> exc, dk |-> dk, executed |-> executed, sh |-> sh]

\* _communicate that leaves the return code of the round trip before
_communicate_KeepsCode(L, status, way, dk, rc0) ==
    IF way = "pipe" THEN Trip(rc0, "RuntimeError", dk, <<>>, "dead")
    ELSE IF way = "timeout"
    THEN Trip(rc0, "TimeoutError", RunLines(dk, BeforeSleep(L)), BeforeSleep(L), "busy")
    ELSE IF way = "nondigit"
    THEN Trip(rc0, "RuntimeError", RunLines(dk, L), L, "ready")
    ELSE Trip(status, "none", RunLines(dk, L), L, "ready")

\* _communicate: one round trip in which the shell executes the lines L and
\* then echo $? (status when every line has run); rc0 is the return code of
\* the session before it.
_communicate(L, status, way, dk, rc0) ==
    IF way = "pipe" THEN Trip(NoneRC, "RuntimeError", dk, <<>>, "dead")
    ELSE IF way = "timeout"
    THEN Trip(NoneRC, "TimeoutError", RunLines(dk, BeforeSleep(L)), BeforeSleep(L), "busy")
    ELSE IF way = "nondigit"
    THEN Trip(NoneRC, "RuntimeError", RunLines(dk, L), L, "ready")
    ELSE Trip(status, "none", RunLines(dk, L), L, "ready")

\* _check_syntax: the round trip of bash -n on the input
_check_syntax(input, way, dk, rc0) ==
    _communicate(CheckRest(input),
                 StatusAfter(CheckRest(input), ParseStatus(CheckBody(input))),
                 way, dk, rc0)

\* What communicate hands back: the round trips' outcome, the status of the
\* syntax check (-1 when it did not finish or was not made), whether the
\* input was then sent for execution, and the output returned.
Outcome(t, check, ran, out, trips) ==
    [rc |-> t.rc, exc |-> t.exc, dk |-> t.dk, executed |-> t.executed, sh |-> t.sh,
     check |-> check, ran |-> ran, out |-> out, trips |-> trips]

\* communicate(input), w1 and w2 the ways its two round trips end
communicate(input, w1, w2, dk, rc0) ==
    IF input = <<"exit">>
    THEN Outcome(Trip(0, "none", dk, <<>>, "dead"), -1, FALSE, "", 0)
    ELSE LET c == _check_syntax(input, w1, dk, rc0)
         IN  IF c.exc # "none" THEN Outcome(c, -1, FALSE, "", 1)
             ELSE IF c.rc # 0 THEN Outcome(c, c.rc, FALSE, "syntax check output", 1)
             ELSE LET r == _communicate(input, StatusAfter(input, 0), w2, c.dk, c.rc)
                  IN  Outcome(Trip(r.rc, r.exc, r.dk, c.executed \o r.executed, r.sh),
                              0, TRUE,
                              IF r.exc = "none" THEN "shell output" ELSE "", 2)

\* close(): communicate("exit") terminates the shell and sets return code 0
Closed(o) ==
    [o EXCEPT !.rc = 0, !.sh = "dead"]

\* rc_seen, the return code that communicate left
Handling(o, after, exc, closed) ==
    [o |-> after, exc |-> exc, closed |-> closed, rc_seen |-> o.rc]

\* communicate_with_handling that raises without closing the session
communicate_with_handling_NoClose(o) ==
    IF o.exc # "none" THEN Handling(o, o, o.exc, FALSE)
    ELSE IF o.rc # 0 THEN Handling(o, o, "RuntimeError", FALSE)
    ELSE Handling(o, o, "none", FALSE)

\* communicate_with_handling on the outcome o of its communicate
communicate_with_handling(o) ==
    IF o.exc # "none" THEN Handling(o, o, o.exc, FALSE)
    ELSE IF o.rc # 0 THEN Handling(o, Closed(o), "RuntimeError", TRUE)
    ELSE Handling(o, o, "none", FALSE)

-----------------------------------------------------------------------------
(* reset(index, apply_test_patch).  The symbol index is the set of its      *)
(* entries; an entry names the task it was built for and whether the        *)
(* working tree it was built from was the clean tree of the base commit.    *)

Entry(task, clean) == [task |-> task, clean |-> clean]

InRepo(q) == StartsWith(q, file_root \o <<"/">>)

\* git status would report nothing
RepoClean(dk) ==
    \A q \in DOMAIN dk \cup DOMAIN InitialDisk :
        InRepo(q) => (q \in DOMAIN dk /\ q \in DOMAIN InitialDisk /\ dk[q] = InitialDisk[q])

\* git restore . / git reset --hard base_commit: tracked files as committed
Restored(dk) ==
    [q \in DOMAIN dk \cup {f \in DOMAIN InitialDisk : InRepo(f)} |->
        IF q \in DOMAIN InitialDisk /\ InRepo(q) THEN InitialDisk[q] ELSE dk[q]]

\* git clean -fdxq: untracked files removed
Cleaned(dk) ==
    [q \in {f \in DOMAIN dk : InRepo(f) => f \in DOMAIN InitialDisk} |-> dk[q]]

\* git apply /root/test.patch
Patched(dk) == PutFile(dk, tests_dir \o <<"/", "t">>, Text(<<"x", "patched">>, ""))

StepOf(name, critical) == [name |-> name, critical |-> critical]

EnvSteps ==
    << StepOf("export CURRENT_FILE", TRUE), StepOf("export CURRENT_LINE", TRUE),
       StepOf("export SEARCH_RESULTS", TRUE), StepOf("export SEARCH_FILES", TRUE),
       StepOf("export SEARCH_INDEX", TRUE) >>

IndexStep(cached) == StepOf(IF cached THEN "load index" ELSE "build index", FALSE)

\* the steps of reset with the symbol index made first
ResetSteps_IndexFirst(present, cached, patch) ==
    << IndexStep(cached), StepOf("cd /", FALSE), StepOf("ls", FALSE) >>
    \o (IF present THEN <<>> ELSE << StepOf("git clone", TRUE) >>)
    \o << StepOf("echo -n > /root/files_to_edit.txt", TRUE), StepOf("cd repo", TRUE),
          StepOf("export ROOT", TRUE), StepOf("git status", TRUE),
          StepOf("git restore .", TRUE), StepOf("git reset --hard", TRUE),
          StepOf("git clean -fdxq", TRUE), StepOf("print git status", FALSE),
          StepOf("pwd", FALSE) >>
    \o EnvSteps
    \o << StepOf("source conda.sh", TRUE), StepOf("print git status", FALSE),
          StepOf("uname -s", FALSE), StepOf("uname -m", FALSE),
          StepOf("apt install build-essential", TRUE), StepOf("install_env", TRUE),
          StepOf("pip install flake8", TRUE), StepOf("print git status", FALSE) >>
    \o (IF patch THEN << StepOf("git apply test.patch", TRUE) >> ELSE <<>>)

\* The steps of reset in the order of the code: present, the repository is
\* in the container; cached, the task's index is in the table cache; patch,
\* apply_test_patch.  A critical step is a communicate_with_handling, the
\* others are plain communicate calls or, for the index, local.  The container
\* is linux on x86_64 and install_environment is set, so that the apt and
\* install_env steps are taken.
ResetSteps(present, cached, patch) ==
    << StepOf("cd /", FALSE), StepOf("ls", FALSE) >>
    \o (IF present THEN <<>> ELSE << StepOf("git clone", TRUE) >>)
    \o << StepOf("echo -n > /root/files_to_edit.txt", TRUE), StepOf("cd repo", TRUE),
          StepOf("export ROOT", TRUE), StepOf("git status", TRUE),
          StepOf("git restore .", TRUE), StepOf("git reset --hard", TRUE),
          StepOf("git clean -fdxq", TRUE), StepOf("print git status", FALSE),
          StepOf("pwd", FALSE), IndexStep(cached) >>
    \o EnvSteps
    \o << StepOf("source conda.sh", TRUE), StepOf("print git status", FALSE),
          StepOf("uname -s", FALSE), StepOf("uname -m", FALSE),
          StepOf("apt install build-essential", TRUE), StepOf("install_env", TRUE),
          StepOf("pip install flake8", TRUE), StepOf("print git status", FALSE) >>
    \o (IF patch THEN << StepOf("git apply test.patch", TRUE) >> ELSE <<>>)

IndexNames == {"load index", "build index"}

\* the disk once the first j of the steps have run
DiskAt(steps, j, dk) ==
    LET Done(name) == \E i \in 1..j : steps[i].name = name
        d1 == IF Done("git restore .") \/ Done("git reset --hard") THEN Restored(dk) ELSE dk
        d2 == IF Done("git clean -fdxq") THEN Cleaned(d1) ELSE d1
    IN  IF Done("git apply test.patch") THEN Patched(d2) ELSE d2

\* the editor that reset starts from without emptying it
NewEditor_Kept(ed) == ed

\* self.editor = {}
NewEditor(ed) == << >>

\* FunctionTable(), ClassTable()
NewTables == {}

\* the outcome of communicate in a step of reset that ends in way kind
StepOutcome(kind, sh) ==
    IF kind = "nonzero" THEN Outcome(Trip(1, "none", disk, <<>>, "ready"), 0, TRUE, "", 2)
    ELSE IF kind = "syntax" THEN Outcome(Trip(2, "none", disk, <<>>, "ready"), 2, FALSE, "", 1)
    ELSE IF kind = "timeout" THEN Outcome(Trip(NoneRC, "TimeoutError", disk, <<>>, "busy"), -1, FALSE, "", 1)
    ELSE IF kind = "nondigit" THEN Outcome(Trip(NoneRC, "RuntimeError", disk, <<>>, "ready"), 0, TRUE, "", 2)
    ELSE IF kind = "pipe" THEN Outcome(Trip(NoneRC, "RuntimeError", disk, <<>>, "dead"), -1, FALSE, "", 1)
    ELSE Outcome(Trip(0, "none", disk, <<>>, "ready"), 0, TRUE, "", 2)

\* reset(task): fail names the step whose communicate does not return 0,
\* and how.  Gives the steps started (log), those that ran to their end
\* (done), the exception that leaves reset, and the session after it.
reset(task, present, patch, fail) ==
    LET entry   == Entry(task, TRUE)
        cached  == \E e \in session.cache : e.task = task
        steps   == ResetSteps(present, cached, patch)
        at      == IF fail.at = 0 \/ fail.at > Len(steps)
                      \/ steps[fail.at].name \in IndexNames
                   THEN 0 ELSE fail.at
        o       == StepOutcome(IF at = 0 THEN "none" ELSE fail.kind, shell)
        h       == IF at = 0 THEN Handling(o, o, "none", FALSE)
                   ELSE IF steps[at].critical THEN communicate_with_handling(o)
                   ELSE Handling(o, o, o.exc, FALSE)
        stopped == at # 0 /\ h.exc # "none"
        started == IF stopped THEN at ELSE Len(steps)
        done    == IF stopped /\ fail.kind # "nondigit" THEN at - 1 ELSE started
        Done(name) == \E i \in 1..done : steps[i].name = name
        idx     == {i \in 1..done : steps[i].name \in IndexNames}
        built   == {Entry(task, RepoClean(DiskAt(steps, i - 1, disk))) : i \in idx}
        loaded  == {e \in session.cache : e.task = task}
        tables  == IF idx = {} THEN NewTables
                   ELSE IF cached THEN loaded ELSE built
    IN  [ed |-> NewEditor(editor),
         dk |-> DiskAt(steps, done, disk),
         wd |-> IF Done("cd repo") THEN file_root
                ELSE IF Done("cd /") THEN <<"/">> ELSE cwd,
         rc |-> IF stopped THEN h.o.rc ELSE 0,
         exc |-> IF stopped THEN h.exc ELSE "none",
         sh |-> IF stopped THEN h.o.sh ELSE "ready",
         closed |-> stopped /\ h.closed,
         log |-> [i \in 1..started |-> steps[i].name],
         tables |-> tables,
         cache |-> IF cached THEN session.cache ELSE session.cache \cup built,
         fail |-> [at |-> at,
                   kind |-> IF at = 0 THEN "none" ELSE fail.kind,
                   critical |-> at # 0 /\ steps[at].critical]]

\* An entry of the class or function table as a lookup returns it: where
\* the definition is, and its code, of which the model keeps the length.
Defn(file_path, line_number, code) ==
    [file_path |-> file_path, line_number |-> line_number, code |-> code]

\* the tables that the index of task 1 holds, by name: class A is defined in
\* two files with long bodies, class B in two files with short ones, class C
\* once
InitialClasses ==
    [n \in {<<"A">>, <<"B">>, <<"C">>} |->
        IF n = <<"A">> THEN << Defn(<<"a">>, 1, 2500), Defn(<<"b">>, 7, 2500) >>
        ELSE IF n = <<"B">> THEN << Defn(<<"a">>, 40, 100), Defn(<<"b">>, 90, 100) >>
        ELSE << Defn(<<"a">>, 60, 5000) >>]

InitialFunctions ==
    [n \in {<<"f">>} |-> << Defn(<<"a">>, 3, 2500), Defn(<<"b">>, 9, 2500) >>]

\* no helper has been called
NoHelper == [fn |-> "none", arg |-> <<>>, value |-> <<>>]

\* the session that Init starts from: reset(1) has returned
AfterReset ==
    [task |-> 1, tables |-> {Entry(1, TRUE)}, cache |-> {Entry(1, TRUE)},
     closed |-> FALSE, log |-> <<>>, fail |-> [at |-> 0, kind |-> "none", critical |-> FALSE],
     input |-> <<>>, ways |-> <<>>, check |-> -1, ran |-> FALSE, executed |-> <<>>,
     rc_seen |-> 0, rc_before |-> 0,
     probe |-> <<>>, killed |-> {}, health |-> "none",
     class_table |-> InitialClasses, function_table |-> InitialFunctions]

Init ==
    /\ disk = InitialDisk
    /\ editor = << >>
    /\ cwd = file_root
    /\ shell = "ready"
    /\ returncode = 0
    /\ call = NoCall
    /\ flagged = {}
    /\ nsteps = 0
    /\ limit = MaxSteps
    /\ fpath = <<>>
    /\ abs_path = <<>>
    /\ session = AfterReset
    /\ helper = NoHelper

StepOpenFile ==
    \E p \in PathInputs \cup {In_t}, fl \in Fails(3) :
        Step("open_file", 1, p, open_file(p, fl), NotFound("open_file", fl), fl)

StepCloseFile ==
    \E p \in PathInputs, fl \in Fails(1) :
        Step("close_file", 1, p, close_file(p, fl), NotFound("close_file", fl), fl)

StepCreateFile ==
    \E p \in PathInputs, c \in ContentInputs, fl \in Fails(4) :
        Step("create_file", 1, p, create_file(p, c, fl), NotFound("create_file", fl), fl)

StepDeleteFile ==
    \E p \in PathInputs, fl \in Fails(3) :
        Step("delete_file", 1, p, delete_file(p, fl), NotFound("delete_file", fl), fl)

StepScrollDown ==
    \E p \in PathInputs, fl \in Fails(2) :
        Step("scroll_down", 1, p, scroll_down(p, fl), NotFound("scroll_down", fl), fl)

StepScrollUp ==
    \E p \in PathInputs, fl \in Fails(2) :
        Step("scroll_up", 1, p, scroll_up(p, fl), NotFound("scroll_up", fl), fl)

StepScrollToLine ==
    \E p \in PathInputs, n \in LineNumbers, fl \in Fails(2) :
        Step("scroll_to_line", 1, <<p, n>>, scroll_to_line(p, n, fl),
             NotFound("scroll_to_line", fl), fl)

StepGetCwd ==
    \E fl \in Fails(1) :
        Step("get_cwd", 1, <<>>, get_cwd(fl), NotFound("get_cwd", fl), fl)

StepNoOp == Step("no_op", 1, <<>>, no_op, NotFound("no_op", NoFail), NoFail)

StepEditFile ==
    \E d \in DiffInputs :
        \E fl \in Fails(4 * Len(d) + 3 * Len(d)) :
            Step("edit_file", 1, d, real_write_diff(d, fl), NotFound("edit_file", fl), fl)

StepShell ==
    \E cmd \in ShellCommands, fl \in ShellFails :
        Step(cmd.verb, 1, <<>>, raw_shell(cmd, fl), raw_shell(cmd, fl), fl)

\* the action  write_file path content
StepWriteFile ==
    \E p \in {In_a, In_c}, c \in {NoNewline}, fl \in ShellFails :
        Step("write_file", 1, p, write_file(p, c, fl), NotFound("write_file", fl), fl)

StepSubmit ==
    \E fl \in Fails(1) :
        Step("submit", 1, <<>>, submit(fl), NotFound("submit", fl), fl)

StepSearch ==
    \E verb \in SearchVerbs, p \in {In_a}, fl \in Fails(2) :
        Step(verb, 1, p, search_tool(verb, p, fl), NotFound(verb, fl), fl)

\* vim, nano, and python on one line or on several
StepInteractive ==
    \E verb \in {"vim", "nano", "python"}, nlines \in {1, 2} :
        \E fl \in IF Route(verb, nlines) = "rejected" THEN {NoFail} ELSE ShellFails :
            Step(verb, nlines, nlines, NotFound(verb, fl), NotFound(verb, fl), fl)

StepSkip == Reserved("skip", no_op, NoFail)

StepExit ==
    \E action \in ExitActions, out \in SubmitOutputs, fl \in ShellFails :
        Reserved(action, shell_submit(out, fl), fl)

WriteFile ==
    \E p \in PathInputs, c \in ContentInputs, fl \in Fails(3) :
        Direct("write_file", p, write_file(p, c, fl), fl)

GetState ==
    \E order \in Orders(DOMAIN editor), fl \in Fails(Cardinality(DOMAIN editor) + 1) :
        Direct("get_state", <<>>, get_state(order, fl), fl)

Next ==
    \/ StepOpenFile
    \/ StepCloseFile
    \/ StepCreateFile
    \/ StepDeleteFile
    \/ StepScrollDown
    \/ StepScrollUp
    \/ StepScrollToLine
    \/ StepGetCwd
    \/ StepNoOp
    \/ StepEditFile
    \/ StepShell
    \/ WriteFile
    \/ GetState

Spec == Init /\ [][Next]_vars

\* Every action step takes, the reserved ones and every verb of the
\* dispatcher included, in episodes of up to MaxDispatchSteps calls.
InitDispatch ==
    /\ disk = InitialDisk
    /\ editor = << >>
    /\ cwd = file_root
    /\ shell = "ready"
    /\ returncode = 0
    /\ call = NoCall
    /\ flagged = {}
    /\ nsteps = 0
    /\ limit = MaxDispatchSteps
    /\ fpath = <<>>
    /\ abs_path = <<>>
    /\ session = AfterReset
    /\ helper = NoHelper

NextDispatch ==
    \/ StepOpenFile
    \/ StepCloseFile
    \/ StepCreateFile
    \/ StepDeleteFile
    \/ StepScrollDown
    \/ StepScrollUp
    \/ StepScrollToLine
    \/ StepGetCwd
    \/ StepNoOp
    \/ StepEditFile
    \/ StepShell
    \/ StepWriteFile
    \/ StepSubmit
    \/ StepSearch
    \/ StepInteractive
    \/ StepSkip
    \/ StepExit
    \/ WriteFile
    \/ GetState

SpecDispatch == InitDispatch /\ [][NextDispatch]_vars

\* The paging tools among the calls that change an open file's contents, in
\* episodes of up to MaxPagingSteps calls.
InitPaging ==
    /\ disk = InitialDisk
    /\ editor = << >>
    /\ cwd = file_root
    /\ shell = "ready"
    /\ returncode = 0
    /\ call = NoCall
    /\ flagged = {}
    /\ nsteps = 0
    /\ limit = MaxPagingSteps
    /\ fpath = <<>>
    /\ abs_path = <<>>
    /\ session = AfterReset
    /\ helper = NoHelper

NextPaging ==
    \/ StepOpenFile
    \/ StepScrollDown
    \/ StepScrollUp
    \/ StepScrollToLine
    \/ StepEditFile
    \/ StepDeleteFile

SpecPaging == InitPaging /\ [][NextPaging]_vars

-----------------------------------------------------------------------------
(* The session from outside step: reset and the shell bridge, between calls *)
(* that open and create files, in episodes of up to MaxSessionSteps calls.  *)

CommandInputs ==
    { <<"true">>, <<"false">>, <<"(">>, <<"rm">>, <<"sleep">>, <<"exit">>, <<"EOF">>,
      <<"true", "false">>, <<"true", "EOF", "rm">> }

\* the ways the two round trips of communicate(input) may end
TripWays(input) ==
    IF input = <<"exit">> THEN {<<"ok", "ok">>}
    ELSE UNION { LET c == _check_syntax(input, w1, disk, returncode)
                 IN  IF c.exc = "none" /\ c.rc = 0
                     THEN {<<w1, w2>> : w2 \in Ways(c.sh, input)}
                     ELSE {<<w1, "ok">>}
                 : w1 \in Ways(shell, CheckRest(input)) }

\* the failures of a step of reset
ResetFails ==
    IF shell = "dead" THEN {[at |-> 1, kind |-> "pipe"]}
    ELSE {NoFail} \cup
         {[at |-> k, kind |-> x] :
            k \in 1..Len(ResetSteps(FALSE, FALSE, TRUE)),
            x \in {"nonzero", "syntax", "timeout"}
                  \cup (IF shell = "busy" THEN {"nondigit"} ELSE {})}

Tasks == {1, 2}

SessionReturn(op, arg, r, sh, sess) ==
    /\ nsteps < limit
    /\ Return(op, "session", arg, r, NoFail,
              [observation |-> Obs("str", r.ret), done |-> FALSE,
               exit_status |-> "", submission |-> Absent,
               escaped |-> r.exc, shell |-> sh,
               interrupted |-> FALSE, container_reset |-> FALSE,
               returned |-> Absent, raised |-> "none"],
              <<>>)
    /\ session' = sess
    /\ UNCHANGED helper

Traced(input, w, o, rc_seen, closed) ==
    [session EXCEPT !.input = input, !.ways = w, !.check = o.check, !.ran = o.ran,
                    !.executed = o.executed, !.rc_seen = rc_seen,
                    !.rc_before = returncode, !.closed = closed,
                    !.log = <<>>, !.fail = AfterReset.fail]

Communicate ==
    /\ nsteps < limit
    /\ \E input \in CommandInputs :
       \E w \in TripWays(input) :
       \E o \in {communicate(input, w[1], w[2], disk, returncode)} :
           SessionReturn("communicate", input,
                         Result(editor, o.dk, cwd, o.rc, o.out, o.exc, <<>>, o.trips),
                         o.sh, Traced(input, w, o, o.rc, session.closed))

CommunicateWithHandling ==
    /\ nsteps < limit
    /\ \E input \in CommandInputs :
       \E w \in TripWays(input) :
       \E o \in {communicate(input, w[1], w[2], disk, returncode)} :
       \E h \in {communicate_with_handling(o)} :
           SessionReturn("communicate_with_handling", input,
                         Result(editor, h.o.dk, cwd, h.o.rc,
                                IF h.exc = "none" THEN o.out ELSE "", h.exc, <<>>, o.trips),
                         h.o.sh, Traced(input, w, o, h.rc_seen, h.closed))

Reset ==
    /\ nsteps < limit
    /\ \E task \in Tasks, present \in BOOLEAN, patch \in BOOLEAN, fail \in ResetFails :
       \E x \in {reset(task, present, patch, fail)} :
           SessionReturn("reset", <<task>>,
                         Result(x.ed, x.dk, x.wd, x.rc, "", x.exc, <<>>, Len(x.log)),
                         x.sh,
                         [session EXCEPT !.task = task, !.tables = x.tables,
                                         !.cache = x.cache, !.closed = x.closed,
                                         !.log = x.log, !.fail = x.fail,
                                         !.input = <<>>, !.ways = <<>>,
                                         !.check = -1, !.ran = FALSE,
                                         !.executed = <<>>, !.rc_seen = x.rc,
                                         !.rc_before = returncode])

InitSession ==
    /\ disk = InitialDisk
    /\ editor = << >>
    /\ cwd = file_root
    /\ shell = "ready"
    /\ returncode = 0
    /\ call = NoCall
    /\ flagged = {}
    /\ nsteps = 0
    /\ limit = MaxSessionSteps
    /\ fpath = <<>>
    /\ abs_path = <<>>
    /\ session = AfterReset
    /\ helper = NoHelper

NextSession ==
    \/ StepOpenFile
    \/ StepCreateFile
    \/ Communicate
    \/ CommunicateWithHandling
    \/ Reset

SpecSession == InitSession /\ [][NextSession]_vars

-----------------------------------------------------------------------------
(* The tools that take a path, with the shell in the repository root, in a  *)
(* directory below it or outside it, in episodes of up to MaxCwdSteps calls. *)

\* the action  cd d
StepChangeDir ==
    \E d \in WorkDirs \cup {tests_dir}, fl \in ShellFails :
    \E cmd \in {[verb |-> "cd", arg |-> d]} :
        Step("cd", 1, d, raw_shell(cmd, fl), raw_shell(cmd, fl), fl)

InitCwd ==
    /\ disk = InitialDisk
    /\ editor = << >>
    /\ cwd = file_root
    /\ shell = "ready"
    /\ returncode = 0
    /\ call = NoCall
    /\ flagged = {}
    /\ nsteps = 0
    /\ limit = MaxCwdSteps
    /\ fpath = <<>>
    /\ abs_path = <<>>
    /\ session = AfterReset
    /\ helper = NoHelper

NextCwd ==
    \/ StepChangeDir
    \/ StepOpenFile
    \/ StepCreateFile
    \/ StepDeleteFile
    \/ StepScrollDown
    \/ StepSearch
    \/ WriteFile

SpecCwd == InitCwd /\ [][NextCwd]_vars

-----------------------------------------------------------------------------
(* edit_file and the linter, in episodes of up to MaxLintSteps calls.  A    *)
(* line y is one that pylint reports (an undefined name), a line x is not.  *)

\* check_lint(code_string, file_path): pylint on a temporary file that holds
\* the code; run numbers the call, whose temporary file has a name of its
\* own that the results carry as module and path.
check_lint(code, run) ==
    {[line |-> i, symbol |-> "undefined-variable", module |-> run] :
        i \in {j \in 1..LineCount(code) : Lines(code)[j] = "y"}}

\* diff_results when real_write_diff leaves its loop: those of the last file
LintReport(diffs, fl) ==
    LET res    == apply_diff(diffs, 0, fl).results
        last   == res[Len(res)]
        before == check_lint(last.new, 2 * Len(res) - 1)
        after  == check_lint(last.new, 2 * Len(res))
    IN  {[path |-> last.path, line |-> w.line, symbol |-> w.symbol] :
            w \in {x \in after : x \notin before}}

GrowA == FileDiff(In_a, In_a, <<"y">>, <<"y", "x">>)
EditB == FileDiff(In_b, In_b, BigLines, <<"y">>)

LintDiffs == { <<EditA>>, <<GrowA>>, <<EditB>>, <<EditA, EditB>>, <<BreakA>> }

\* edit_file, with the warnings its observation lists and the contents the
\* files had before
StepEditLint ==
    \E d \in LintDiffs :
    \E fl \in Fails(4 * Len(d) + 3 * Len(d)) :
    \E r \in {real_write_diff(d, fl)} :
        /\ StepCore("edit_file", 1, d, r, NotFound("edit_file", fl), fl)
        /\ helper' = [fn |-> "real_write_diff", arg |-> d,
                      value |-> [reported |-> IF r.ret = "Successfully edited file(s)"
                                              THEN LintReport(d, fl) ELSE {},
                                 old |-> [q \in ChangedFiles(r) \cap DOMAIN disk |-> disk[q]]]]
        /\ UNCHANGED session

InitLint ==
    /\ disk = InitialDisk
    /\ editor = << >>
    /\ cwd = file_root
    /\ shell = "ready"
    /\ returncode = 0
    /\ call = NoCall
    /\ flagged = {}
    /\ nsteps = 0
    /\ limit = MaxLintSteps
    /\ fpath = <<>>
    /\ abs_path = <<>>
    /\ session = AfterReset
    /\ helper = NoHelper

NextLint ==
    \/ StepOpenFile
    \/ StepEditLint

SpecLint == InitLint /\ [][NextLint]_vars

-----------------------------------------------------------------------------
(* search_file on files of SearchLen lines, in episodes of up to            *)
(* MaxSearchSteps calls.  A line m holds the search term m, a line x does   *)
(* not; no line holds the term z.                                           *)

tolerance == 10

\* _capture_window(lines, index, window_size): index counts from 0, and the
\* slice lines[start_line:end_line] ends before end_line
_capture_window(lines, index, window_size) ==
    LET start_line == IF index - window_size >= 0 THEN index - window_size ELSE 0
        end_line   == IF index + window_size <= Len(lines)
                      THEN index + window_size ELSE Len(lines)
    IN  [match |-> index, lines |-> SubSeq(lines, start_line + 1, end_line)]

\* search_file(search_term, file_path) once the path is resolved
search_file(search_term, path) ==
    IF path \notin DOMAIN editor
    THEN [exc |-> "Exception", ret |-> "", windows |-> <<>>, path |-> path]
    ELSE LET content_lines == Lines(editor[path].lines)
             Holds(i)      == content_lines[i + 1] = search_term
             found   == SelectSeq([i \in 1..Len(content_lines) |-> i - 1], Holds)
             matches == [k \in 1..Len(found) |->
                            _capture_window(content_lines, found[k], tolerance)]
         IN  IF matches = <<>>
             THEN [exc |-> "none", ret |-> "No matches found", windows |-> <<>>,
                   path |-> path]
             ELSE IF Len(matches) > 10
             THEN [exc |-> "none", ret |-> "Please narrow your search",
                   windows |-> <<>>, path |-> path]
             ELSE [exc |-> "none", ret |-> "Found", windows |-> matches,
                   path |-> path]

SearchLen == 25

Marked(S) == Text([i \in 1..SearchLen |-> IF i \in S THEN "m" ELSE "x"], "")

SearchTexts ==
    {Marked(S) : S \in {{}, {1}, {11}, {13}, {15}, {25}, {5, 20}, 1..10, 1..11}}

SearchTerms == {"m", "z"}

StepSearchFile ==
    \E term \in SearchTerms, p \in {In_a, In_c}, fl \in Fails(1) :
        /\ StepCore("search_file", 1, p, search_tool("search_file", p, fl),
                    NotFound("search_file", fl), fl)
        /\ helper' = IF Ok(fl, 1)
                      THEN [fn |-> "search_file", arg |-> <<term, p>>,
                            value |-> search_file(term, ResolveArg(p, cwd))]
                      ELSE NoHelper
        /\ UNCHANGED session

InitSearch ==
    /\ \E c \in SearchTexts :
          disk = [InitialDisk EXCEPT ![<<"/", "r", "/", "a">>] = c]
    /\ editor = << >>
    /\ cwd = file_root
    /\ shell = "ready"
    /\ returncode = 0
    /\ call = NoCall
    /\ flagged = {}
    /\ nsteps = 0
    /\ limit = MaxSearchSteps
    /\ fpath = <<>>
    /\ abs_path = <<>>
    /\ session = AfterReset
    /\ helper = NoHelper

NextSearch ==
    \/ StepOpenFile
    \/ StepCloseFile
    \/ StepSearchFile

SpecSearch == InitSearch /\ [][NextSearch]_vars

-----------------------------------------------------------------------------
(* The tokenizer on action lines of its own.  An action line is the list   *)
(* of its characters; a verb is written as one character that is neither   *)
(* white space nor a quote.                                                 *)

\* \s of the pattern
IsSpace(c) == c \in {" ", "\n"}

\* the first index from i on where s holds c, 0 when there is none
FirstAt(s, i, c) ==
    IF \E j \in i..Len(s) : s[j] = c
    THEN CHOOSE j \in i..Len(s) : s[j] = c /\ \A k \in i..(j - 1) : s[k] # c
    ELSE 0

\* s.startswith(t) at index i
HasAt(s, i, t) == i + Len(t) - 1 <= Len(s) /\ SubSeq(s, i, i + Len(t) - 1) = t

\* [^"\s]+ at i: the index of the last character of the run
WordEnd(s, i) ==
    CHOOSE e \in i..Len(s) :
        /\ \A k \in i..e : s[k] # "\"" /\ ~IsSpace(s[k])
        /\ e = Len(s) \/ s[e + 1] = "\"" \/ IsSpace(s[e + 1])

\* The match of the pattern  "[^"]*" | \[[^]]*\] | <<<[^>]*>>> | [^"\s]+
\* that begins at i: the index of its last character, 0 when none of the
\* alternatives matches there.  The alternatives are tried in this order.
MatchEnd(s, i) ==
    LET gt == FirstAt(s, i + 3, ">")
    IN  IF s[i] = "\"" THEN FirstAt(s, i + 1, "\"")
        ELSE IF IsSpace(s[i]) THEN 0
        ELSE IF s[i] = "[" /\ FirstAt(s, i + 1, "]") # 0 THEN FirstAt(s, i + 1, "]")
        ELSE IF HasAt(s, i, <<"<", "<", "<">>) /\ gt # 0 /\ HasAt(s, gt, <<">", ">", ">">>)
        THEN gt + 2
        ELSE WordEnd(s, i)

\* re.findall(pattern, command) from index i on
RECURSIVE findall(_, _)
findall(s, i) ==
    IF i > Len(s) THEN <<>>
    ELSE IF MatchEnd(s, i) = 0 THEN findall(s, i + 1)
    ELSE <<SubSeq(s, i, MatchEnd(s, i))>> \o findall(s, MatchEnd(s, i) + 1)

\* what the loop of parse_command makes of a part
Stripped(arg) ==
    IF arg[1] = "\"" /\ arg[Len(arg)] = "\"" THEN SubSeq(arg, 2, Len(arg) - 1)
    ELSE IF /\ HasAt(arg, 1, <<"<", "<", "<">>)
            /\ Len(arg) >= 3 /\ HasAt(arg, Len(arg) - 2, <<">", ">", ">">>)
    THEN SubSeq(arg, 4, Len(arg) - 3)
    ELSE arg

\* parse_command(command): parts[0] raises IndexError when nothing matches
parse_command(command) ==
    LET parts == findall(command, 1)
    IN  IF parts = <<>>
        THEN [exc |-> "IndexError", fn_name |-> <<>>, args |-> <<>>]
        ELSE [exc |-> "none", fn_name |-> parts[1],
              args |-> [k \in 1..(Len(parts) - 1) |-> Stripped(parts[k + 1])]]

\* sep.join(L)
RECURSIVE Joined(_, _)
Joined(L, sep) ==
    IF L = <<>> THEN <<>>
    ELSE IF Len(L) = 1 THEN L[1]
    ELSE L[1] \o sep \o Joined(Tail(L), sep)

\* fn_name + " " + " ".join(args), the input of communicate for a verb that
\* is not a tool
ShellInput(p) == p.fn_name \o <<" ">> \o Joined(p.args, <<" ">>)

MaxBodyLen == 3

BodyChars == {"a", " ", "\n", ">", "\""}

Bodies == UNION {[1..n -> BodyChars] : n \in 0..MaxBodyLen}

\* the action lines: a verb, a blank and one argument, written as a literal
\* between <<< and >>>, as a string between quotes, or as it is
ActionLine(verb, form, body) ==
    <<verb, " ">> \o
        (IF form = "literal" THEN <<"<", "<", "<">> \o body \o <<">", ">", ">">>
         ELSE IF form = "quoted" THEN <<"\"">> \o body \o <<"\"">>
         ELSE body)

ActionLines ==
    {[verb |-> verb, form |-> form, body |-> body,
      command |-> ActionLine(verb, form, body)] :
        verb \in {"grep", "create_file"}, form \in {"literal", "quoted", "plain"},
        body \in Bodies}

\* parse_command on the action line
ParseCommand ==
    /\ helper.fn = "input"
    /\ helper' = [fn |-> "parse_command", arg |-> helper.arg,
                  value |-> parse_command(helper.arg.command)]
    /\ UNCHANGED <<disk, editor, cwd, shell, returncode, call, flagged, nsteps,
                   limit, fpath, abs_path, session>>

\* the last branch of parse_command_to_function: the text that communicate
\* is given
ShellText ==
    /\ helper.fn = "input"
    /\ \E p \in {parse_command(helper.arg.command)} :
          /\ p.exc = "none"
          /\ Len(p.fn_name) = 1
          /\ Route(p.fn_name[1], 1) = "shell"
          /\ helper' = [fn |-> "communicate", arg |-> helper.arg,
                        value |-> ShellInput(p)]
    /\ UNCHANGED <<disk, editor, cwd, shell, returncode, call, flagged, nsteps,
                   limit, fpath, abs_path, session>>

InitParse ==
    /\ disk = InitialDisk
    /\ editor = << >>
    /\ cwd = file_root
    /\ shell = "ready"
    /\ returncode = 0
    /\ call = NoCall
    /\ flagged = {}
    /\ nsteps = 0
    /\ limit = 1
    /\ fpath = <<>>
    /\ abs_path = <<>>
    /\ session = AfterReset
    /\ \E line \in ActionLines :
          helper = [fn |-> "input", arg |-> line, value |-> <<>>]

NextParse ==
    \/ ParseCommand
    \/ ShellText

SpecParse == InitParse /\ [][NextParse]_vars

-----------------------------------------------------------------------------
(* interrupt, called on a session in which a command may have outlasted    *)
(* its timeout.  The listing of ps -eo pid,comm is the list of its rows, a  *)
(* row the list of its words: the pid, then the words of the command name.  *)

\* the pids of the shell and of what started it, noted when the container
\* was started
parent_pids == {1}

ShellRow == <<1, "bash">>
PsRow    == <<9, "ps">>

\* the children a listing may hold; the name of 6 is "tmux: server"
ChildRows == {<<5, "sleep">>, <<6, "tmux:", "server">>, <<7, "python">>}

\* ps lists by pid
Listed(S) ==
    LET all == S \cup {ShellRow, PsRow}
        nth(k) == CHOOSE x \in all : Cardinality({y \in all : y[1] < x[1]}) = k - 1
    IN  [k \in 1..Cardinality(all) |-> nth(k)]

Listings == {Listed(S) : S \in SUBSET ChildRows}

\* get_pids(all_pids): the rows split into words, without ps and the parents
get_pids(listing, all_pids) ==
    LET Kept(x) == x[2] # "ps" /\ x[1] \notin parent_pids
    IN  IF all_pids THEN listing ELSE SelectSeq(listing, Kept)

\* for pid, cmd in pids: a row of more than two words cannot be unpacked
\* (ValueError) and ends the loop
RECURSIVE KillLoop(_, _, _)
KillLoop(pids, i, killed) ==
    IF i > Len(pids) THEN [killed |-> killed, exc |-> "none"]
    ELSE IF Len(pids[i]) # 2 THEN [killed |-> killed, exc |-> "ValueError"]
    ELSE KillLoop(pids, i + 1,
                  IF pids[i][1] \notin parent_pids /\ pids[i][2] # "ps"
                  THEN killed \cup {pids[i][1]} ELSE killed)

\* the ways the health check may end: those of communicate, and whether the
\* output returned ends with the word interrupted.  On a shell that is ready
\* it does; on a shell that was busy what the old command still writes may
\* come after it.
HealthWays ==
    {[w |-> w, literal |-> l] :
        w \in TripWays(<<"true">>),
        l \in IF shell = "busy" THEN BOOLEAN ELSE {TRUE}}

\* interrupt(): the kills, the drain, then communicate("echo 'interrupted'")
\* whose TimeoutError alone is turned into RuntimeError
Interrupted(listing, h) ==
    LET k == KillLoop(get_pids(listing, FALSE), 1, {})
        o == communicate(<<"true">>, h.w[1], h.w[2], disk, returncode)
    IN  IF k.exc # "none"
        THEN [killed |-> k.killed, exc |-> k.exc, health |-> "not made",
              dk |-> disk, rc |-> returncode, sh |-> shell, trips |-> 0]
        ELSE [killed |-> k.killed,
              exc |-> IF o.exc = "TimeoutError" THEN "RuntimeError"
                      ELSE IF o.exc # "none" THEN o.exc
                      ELSE IF ~h.literal THEN "AssertionError"
                      ELSE "none",
              health |-> IF o.exc = "TimeoutError" THEN "timed out"
                         ELSE IF o.exc # "none" THEN "raised"
                         ELSE IF ~h.literal THEN "other output"
                         ELSE "interrupted",
              dk |-> o.dk, rc |-> o.rc, sh |-> o.sh, trips |-> o.trips]

Interrupt ==
    /\ nsteps < limit
    /\ \E listing \in Listings :
       \E h \in HealthWays :
       \E x \in {Interrupted(listing, h)} :
           SessionReturn("interrupt", listing,
                         Result(editor, x.dk, cwd, x.rc, "", x.exc, <<>>, x.trips),
                         x.sh,
                         [session EXCEPT !.probe = listing, !.killed = x.killed,
                                         !.health = x.health])

InitInterrupt ==
    /\ disk = InitialDisk
    /\ editor = << >>
    /\ cwd = file_root
    /\ shell = "ready"
    /\ returncode = 0
    /\ call = NoCall
    /\ flagged = {}
    /\ nsteps = 0
    /\ limit = MaxInterruptSteps
    /\ fpath = <<>>
    /\ abs_path = <<>>
    /\ session = AfterReset
    /\ helper = NoHelper

NextInterrupt ==
    \/ Communicate
    \/ Interrupt

SpecInterrupt == InitInterrupt /\ [][NextInterrupt]_vars

-----------------------------------------------------------------------------
(* The lookups in the symbol index between two resets, in episodes of up    *)
(* to MaxIndexSteps actions.                                                *)

\* get_class_defn(name, table), get_function_defn(name, table): the list of
\* the entries of the table for the name.  The entries are those the table
\* holds, not copies of them.
get_class_defn(name, table) == IF name \in DOMAIN table THEN table[name] ELSE <<>>

get_function_defn(name, table) == IF name \in DOMAIN table THEN table[name] ELSE <<>>

\* len(str(defns)): the code of every entry and the rest of its fields
FieldsLen == 60

RECURSIVE StrLen(_)
StrLen(defns) ==
    IF defns = <<>> THEN 2
    ELSE FieldsLen + (IF "code" \in DOMAIN defns[1] THEN defns[1].code ELSE 0)
         + StrLen(Tail(defns))

ResponseBudget == 4000

\* del class_defn["code"]
WithoutCode(e) == [f \in DOMAIN e \ {"code"} |-> e[f]]

\* find_class(class_name): the table after the call and the entries that
\* the string returned lists
find_class(class_name, table) ==
    LET class_defns == get_class_defn(class_name, table)
        after == IF Len(class_defns) > 1 /\ StrLen(class_defns) > ResponseBudget
                 THEN [table EXCEPT ![class_name] =
                          [i \in 1..Len(class_defns) |-> WithoutCode(class_defns[i])]]
                 ELSE table
    IN  [table |-> after, ret |-> get_class_defn(class_name, after)]

\* find_function(function_name)
find_function(function_name, table) ==
    [table |-> table, ret |-> get_function_defn(function_name, table)]

QueryNames == {<<"A">>, <<"B">>, <<"C">>, <<"f">>, <<"n">>}

StepFindClass ==
    \E name \in QueryNames, fl \in Fails(1) :
    \E x \in {find_class(name, session.class_table)} :
        /\ StepCore("find_class", 1, name, search_tool("find_class", name, fl),
                    NotFound("find_class", fl), fl)
        /\ session' = [session EXCEPT !.class_table = x.table]
        /\ helper' = [fn |-> "find_class", arg |-> name, value |-> x.ret]

StepFindFunction ==
    \E name \in QueryNames, fl \in Fails(1) :
    \E x \in {find_function(name, session.function_table)} :
        /\ StepCore("find_function", 1, name, search_tool("find_function", name, fl),
                    NotFound("find_function", fl), fl)
        /\ session' = [session EXCEPT !.function_table = x.table]
        /\ helper' = [fn |-> "find_function", arg |-> name, value |-> x.ret]

InitIndex ==
    /\ disk = InitialDisk
    /\ editor = << >>
    /\ cwd = file_root
    /\ shell = "ready"
    /\ returncode = 0
    /\ call = NoCall
    /\ flagged = {}
    /\ nsteps = 0
    /\ limit = MaxIndexSteps
    /\ fpath = <<>>
    /\ abs_path = <<>>
    /\ session = AfterReset
    /\ helper = NoHelper

NextIndex ==
    \/ StepFindClass
    \/ StepFindFunction
    \/ StepOpenFile
    \/ StepEditFile
    \/ StepDeleteFile
    \/ StepShell

SpecIndex == InitIndex /\ [][NextIndex]_vars




-----------------------------------------------------------------------------
(* The path normaliser on its own: any argument of up to MaxPathLen         *)
(* characters.                                                              *)

PathChars == {"/", "r", "e", ".", "'"}

InitPath ==
    /\ disk = InitialDisk
    /\ editor = << >>
    /\ cwd = file_root
    /\ shell = "ready"
    /\ returncode = 0
    /\ call = NoCall
    /\ flagged = {}
    /\ nsteps = 0
    /\ limit = MaxSteps
    /\ fpath \in SeqsUpTo(PathChars, MaxPathLen)
    /\ abs_path = <<>>
    /\ session = AfterReset
    /\ helper = NoHelper

Normalise ==
    /\ call.op = "reset"
    /\ abs_path' = make_abs_path(fpath)
    /\ call' = [call EXCEPT !.op = "make_abs_path"]
    /\ UNCHANGED <<disk, editor, cwd, shell, returncode, flagged, nsteps, limit, fpath, session, helper>>

SpecPath == InitPath /\ [][Normalise]_vars

-----------------------------------------------------------------------------
(* Claims *)

ViaStep == call.via = "step"

\* C1: for every non-reserved action, step returns a result and lets no
\* exception escape to its caller, also when a shell round trip below the
\* dispatcher raises.
C1_StepNeverRaises == ViaStep => call.escaped = "none"

EditErrors ==
    {"Failed to edit file", "Error applying diff",
     "Error applying diff: tried to edit tests"}

\* C2: whenever edit_file returns an error observation, no file on disk and
\* no editor record differs from its value before the call, also for a diff
\* of several files where an earlier file passed before a later one failed.
C2_EditErrorMutatesNothing ==
    (call.op = "edit_file" /\ call.ret \in EditErrors)
        => (~call.disk_changed /\ ~call.editor_changed)

\* C3: when a shell command issued by a step exceeds its timeout, the step
\* runs interrupt, returns an observation that includes EXECUTION TIMED OUT
\* with done = false, and does not reset the container.
C3_TimeoutInterrupts ==
    (ViaStep /\ call.failure = "timeout")
        => /\ call.escaped = "none"
           /\ call.interrupted
           /\ call.observation = Obs("str", "EXECUTION TIMED OUT")
           /\ ~call.done
           /\ ~call.container_reset

\* C4: when a shell round trip of a step fails fatally (broken pipe on write
\* or a non-digit exit code), the step calls reset_container and returns
\* done = true with exit_status early_exit.
C4_FatalResetsContainer ==
    (ViaStep /\ call.failure \in {"pipe", "nondigit"})
        => /\ call.container_reset
           /\ call.done
           /\ call.exit_status = "early_exit"

\* C5: for every input path, make_abs_path returns a path that starts with
\* the repo root and contains no ".." segment.
C5_NormalisedUnderRoot ==
    call.op = "make_abs_path" => (UnderRoot(abs_path) /\ ~HasDotDot(abs_path))

\* C6: in every reachable state, every key of the editor is an absolute path
\* that starts with the task's repo root.
C6_EditorKeysUnderRoot == \A k \in DOMAIN editor : UnderRoot(k)

\* C7: in every reachable state, every open-file record satisfies
\* page * PAGE_SIZE <= line_count(contents).
C7_PageWithinContents ==
    \A k \in DOMAIN editor : editor[k].page * PAGE_SIZE <= LineCount(editor[k].lines)

KeysetOps == {"open_file", "close_file", "create_file", "delete_file"}

KeysetSuccess ==
    {"File opened in editor", "Successfully created file",
     "Successfully closed file!", "Successfully deleted file"}

\* C8: after any sequence of open_file, close_file, create_file and
\* delete_file calls, the editor keyset is exactly the set of paths whose
\* latest successful operation was an open or a create; failed calls never
\* change the keyset.
C8_KeysetIsOpenedSet ==
    /\ DOMAIN editor = flagged
    /\ (call.op \in KeysetOps /\ call.ret \notin KeysetSuccess) => ~call.editor_changed

\* C8 witness: delete_file has removed an open file while another stays open
C8_Witness ==
    /\ call.op = "delete_file"
    /\ call.ret = "Successfully deleted file"
    /\ call.was_open
    /\ flagged # {}

\* C9: after every successful create_file, write_file or edit_file, and
\* after refresh, the contents in the editor record of each affected open
\* path equal the contents of that file on disk.
C9_EditorEqualsDisk ==
    /\ call.ret \in {"Successfully created file", "Successfully wrote to file",
                     "Successfully edited file(s)"}
          => (abs_path \in DOMAIN editor
                => editor[abs_path].lines = read_file(disk, abs_path))
    /\ (call.op = "get_state" /\ call.exc = "none")
          => \A k \in DOMAIN editor : editor[k].lines = read_file(disk, k)

\* C10: write_file on a path that exists on disk succeeds whether or not the
\* path is open (file overwritten, an open record gets the new contents, the
\* editor unchanged when the path is not open); on a path that does not
\* exist it fails without creating the file or changing the editor.
C10_WriteFileOnExisting ==
    (call.op = "write_file" /\ call.failure = "none")
        => /\ call.existed => call.exc = "none"
           /\ (call.existed /\ ~call.was_open) => ~call.editor_changed
           /\ ~call.existed
                 => (call.exc # "none" /\ ~call.disk_changed /\ ~call.editor_changed)


\* the blocks of the diff given to edit_file whose resolved path has a
\* /tests/ segment
TestsSegment == <<"/", "t", "e", "s", "t", "s", "/">>

UnderTests(q) ==
    \E i \in 1..Len(q) : i + 6 <= Len(q) /\ SubSeq(q, i, i + 6) = TestsSegment

TestsBlocks ==
    {i \in 1..Len(call.input) : UnderTests(ResolveArg(call.input[i].tgt_file, cwd))}

TestsError == "Error applying diff: tried to edit tests"

\* C11 as stated: for every diff whose resolved file path contains a /tests/
\* segment, edit_file fails with the test-path error, whatever the patched
\* contents are, and neither that file on disk nor its editor record changes.
C11_TestsPathError ==
    (call.op = "edit_file" /\ call.failure = "none" /\ TestsBlocks # {})
        => /\ call.ret = TestsError
           /\ \A i \in TestsBlocks :
                LET q == ResolveArg(call.input[i].tgt_file, cwd)
                IN  Canon(q) \notin call.files /\ q \notin call.records

\* C11 amended: for every diff blob with a block whose resolved path
\* contains a /tests/ segment, edit_file never reports success and changes
\* neither that file on disk nor its editor record; it reports the test-path
\* error when every block of the blob applies, the tests block is the first
\* one and its patched contents parse (a block that does not apply, or
\* contents that do not parse, are reported instead).
C11_TestsNeverEdited ==
    (call.op = "edit_file" /\ TestsBlocks # {})
        => /\ call.ret # "Successfully edited file(s)"
           /\ \A i \in TestsBlocks :
                LET q == ResolveArg(call.input[i].tgt_file, cwd)
                IN  Canon(q) \notin call.files /\ q \notin call.records
           /\ ( /\ call.failure = "none"
                /\ 1 \in TestsBlocks
                /\ Len(call.blocks) = Len(call.input)
                /\ \A j \in 1..Len(call.blocks) : call.blocks[j].ok
                /\ call.blocks[1].parses )
                => call.ret = TestsError

\* C11 witness: edit_file has refused a diff on a tests file that is open
C11_Witness ==
    /\ call.op = "edit_file"
    /\ call.ret = TestsError
    /\ abs_path \in DOMAIN editor
    /\ UnderTests(abs_path)

\* C12: for a diff blob that names several files, each file is committed or
\* rejected on its own: a file whose hunks all apply is written and reported
\* as edited even when another file of the blob fails to apply, and the
\* failing file is reported as failed and left unchanged.
C12_FilesCommittedIndependently ==
    ( /\ call.op = "edit_file"
      /\ call.failure = "none"
      /\ \E j \in 1..Len(call.blocks) : ~call.blocks[j].ok )
        => \A i \in 1..Len(call.blocks) :
             LET b == call.blocks[i]
             IN  IF b.ok
                 THEN (b.parses /\ b.path \in DOMAIN editor /\ ~UnderTests(b.path))
                          => Canon(b.path) \in call.files
                 ELSE Canon(b.path) \notin call.files

\* C13: if any file block of the diff blob lacks its source path or lacks
\* its target path (either one missing), edit_file fails with the
\* Hallucination failure for the whole blob and no file of the blob is
\* written.
C13_MissingPathIsHallucination ==
    ( /\ call.op = "edit_file"
      /\ call.failure = "none"
      /\ \E i \in 1..Len(call.input) :
            Missing(call.input[i].src_file) \/ Missing(call.input[i].tgt_file) )
        => (call.exc = "Hallucination" /\ call.files = {})

\* C14: every file content that edit_file writes to disk has passed the
\* compile check: edit_file never leaves on disk contents that fail to
\* parse, and a diff whose patched contents fail to parse yields the
\* observation 'Error applying diff:' with that file unchanged.
C14_CommittedContentsParse ==
    call.op = "edit_file"
        => /\ \A q \in call.files : q \in DOMAIN disk => Compiles(disk[q])
           /\ call.ret = "Error applying diff"
                => (Canon(abs_path) \notin call.files /\ abs_path \notin call.records)

NotReserved == ViaStep /\ call.route # "reserved"

\* C15: for a non-reserved action, step returns done = true with exit_status
\* submitted and info.submission set to the text between the sentinels
\* exactly when the observation holds the opening sentinel followed by the
\* closing one; with no sentinel pair and no shell-fatal error step returns
\* done = false.
C15_SubmissionEndsEpisode ==
    NotReserved =>
        LET sub == get_submission(call.returned)
        IN  /\ sub.found
                => /\ call.escaped = "none"
                   /\ call.done
                   /\ call.exit_status = "submitted"
                   /\ call.submission = Obs("str", sub.body)
            /\ (call.escaped = "none" /\ call.done /\ call.exit_status = "submitted")
                => sub.found
            /\ (~sub.found /\ call.failure \notin {"pipe", "nondigit"})
                => (call.escaped = "none" /\ ~call.done)

SpecStatuses ==
    {"skipped", "submitted", "early_exit"} \cup {SubmittedBy(a) : a \in ExitActions}

\* C16 as stated: whenever step returns done = true, info.exit_status is one
\* of skipped, submitted, submitted (exit_*), early_exit; whenever it returns
\* done = false, info carries no exit_status.
C16_ExitStatusListed ==
    (ViaStep /\ call.escaped = "none")
        => /\ call.done => call.exit_status \in SpecStatuses
           /\ ~call.done => call.exit_status = ""

\* C16 amended: whenever step returns done = true, info.exit_status is one
\* of skipped, submitted, submitted (exit_*), early_exit, or the name of the
\* exit_* action itself when its submit found no submission; whenever step
\* returns done = false, info carries no exit_status.
C16_ExitStatusOrAction ==
    (ViaStep /\ call.escaped = "none")
        => /\ call.done => call.exit_status \in SpecStatuses \cup ExitActions
           /\ (call.done /\ call.exit_status \in ExitActions)
                => (call.exit_status = call.op /\ call.submission = Absent)
           /\ ~call.done => call.exit_status = ""

\* C16 witness: an exit_* action whose submit gave no submission
C16_Witness ==
    /\ call.op \in ExitActions
    /\ call.done
    /\ call.exit_status = call.op

\* C17: reserved actions short-circuit: skip returns done = true with
\* exit_status skipped without a shell round trip and without changing the
\* editor; every exit_* action attempts one submit round trip, never invokes
\* the dispatcher, always returns done = true, and attaches the extracted
\* patch when the submit output holds a non-blank submission.
C17_ReservedShortCircuit ==
    /\ (call.route = "reserved" /\ call.op = "skip")
        => /\ call.done
           /\ call.exit_status = "skipped"
           /\ call.trips = 0
           /\ ~call.editor_changed
           /\ ~call.disk_changed
    /\ (call.route = "reserved" /\ call.op \in ExitActions)
        => /\ call.done
           /\ call.escaped = "none"
           /\ call.trips = 1
           /\ call.returned = Absent
           /\ ~call.editor_changed
           /\ LET sub == get_submission(Obs("str", call.ret))
              IN  (call.exc = "none" /\ sub.found /\ sub.body # "")
                      => /\ call.submission = Obs("str", sub.body)
                         /\ call.exit_status = SubmittedBy(call.op)

\* C17 witness: an exit_* action whose submit round trip raised
C17_Witness ==
    /\ call.op \in ExitActions
    /\ call.exc # "none"
    /\ call.done

\* C18: parse_command_to_function returns a string observation for every
\* action it is given: toolbox verbs, edit_file, rejected interactive
\* commands, and raw shell commands, those whose round trip raises included.
C18_DispatcherReturnsString ==
    NotReserved => (call.returned.type = "str" /\ call.raised = "none")

SpecVerbs ==
    {"open_file", "close_file", "create_file", "delete_file", "write_file",
     "scroll_up", "scroll_down", "scroll_to_line", "search_dir", "search_file",
     "find_file", "find_function", "find_class", "list_dirs_recursive",
     "edit_file", "submit", "no_op", "get_cwd"}

\* C19 as stated: an action whose verb is one of the toolbox verbs the spec
\* names (write_file among them) is executed by the corresponding tool and
\* never sent to the shell; an action with any other verb is sent to the
\* shell.
C19_SpecVerbsAreTools ==
    NotReserved
        => /\ call.op \in SpecVerbs => call.route \in {"tool", "edit"}
           /\ call.op \notin SpecVerbs => call.route = "shell"

\* C19 amended: a non-reserved action whose verb is one of open_file,
\* close_file, create_file, delete_file, scroll_up, scroll_down,
\* scroll_to_line, search_dir, search_file, find_file, find_function,
\* find_class, list_dirs_recursive, edit_file, submit, no_op, get_cwd is
\* executed by the corresponding tool and never sent to the shell; an action
\* with any other verb, write_file included, is sent to the shell, unless it
\* is rejected as interactive (vim, nano, multi-line python).
C19_RegisteredVerbsAreTools ==
    NotReserved
        => /\ call.op \in SpecVerbs \ {"write_file"} => call.route \in {"tool", "edit"}
           /\ call.op \notin SpecVerbs \ {"write_file"}
                => /\ call.route \in {"shell", "rejected"}
                   /\ call.route = "rejected" => call.op \in {"vim", "nano", "python"}

\* C19 witness: the action write_file has gone to the shell
C19_Witness ==
    /\ ViaStep
    /\ call.op = "write_file"
    /\ call.route = "shell"
    /\ call.ret = "command not found"
    /\ ~call.disk_changed

\* C20: an action whose verb is vim or nano, or whose verb is python and
\* which spans more than one non-empty line, is rejected with 'Interactive
\* Commands are not allowed': nothing is written to the shell and the editor
\* and files are unchanged.
C20_InteractiveRejected ==
    (NotReserved /\ (call.op \in {"vim", "nano"} \/ (call.op = "python" /\ call.input # 1)))
        => /\ call.returned = Obs("str", "Interactive Commands are not allowed")
           /\ call.observation = Obs("str", "Interactive Commands are not allowed")
           /\ call.trips = 0
           /\ call.failure = "none"
           /\ ~call.disk_changed
           /\ ~call.editor_changed
           /\ ~call.done

\* C20 witness: a python action of two lines has been rejected
C20_Witness ==
    /\ call.op = "python"
    /\ call.input = 2
    /\ call.route = "rejected"
    /\ call.ret = "Interactive Commands are not allowed"

Unfailed(op) == ViaStep /\ call.op = op /\ call.failure = "none"

\* C21: open_file(p) on a path that is already open, or that does not exist
\* on disk, returns a failure observation and leaves the editor unchanged
\* (an existing record keeps its contents and page); otherwise it inserts a
\* record for the normalized path with page 0 and contents equal to the
\* file's contents on disk, and leaves all other records unchanged.
C21_OpenFile ==
    Unfailed("open_file") =>
        IF call.was_open \/ ~call.existed
        THEN call.ret = "Failed to open file" /\ ~call.editor_changed
        ELSE /\ call.ret = "File opened in editor"
             /\ call.records = {abs_path}
             /\ editor[abs_path] = Record(disk[Canon(abs_path)], 0)

\* C21 witness: open_file has refused a path that is open on a later page
C21_Witness ==
    /\ Unfailed("open_file")
    /\ call.was_open
    /\ call.ret = "Failed to open file"
    /\ editor[abs_path].page > 0

C23_DeleteFile ==
    /\ Unfailed("delete_file") =>
        /\ call.ret = "Successfully deleted file"
            => (~IsFile(disk, abs_path) /\ abs_path \notin DOMAIN editor)
        /\ ~call.existed
            => /\ call.ret = "Failed to delete file"
               /\ ~call.disk_changed
               /\ ~call.editor_changed
    /\ DOMAIN editor \subseteq flagged

\* C23 witness: delete_file has deleted a file that was open
C23_Witness ==
    /\ Unfailed("delete_file")
    /\ call.was_open
    /\ call.ret = "Successfully deleted file"
    /\ editor # << >>

ScrollOps == {"scroll_down", "scroll_up", "scroll_to_line"}

Scrolled ==
    /\ ViaStep
    /\ call.op \in ScrollOps
    /\ call.ret \in {"Scrolled down in file", "Scrolled up in file",
                     "Scrolled to window containing line"}

\* C24: scroll_down moves an open file's page forward by exactly one unless
\* it is on the last page floor(line_count / PAGE_SIZE), where it stays;
\* scroll_up moves it back by exactly one unless it is on page 0, where it
\* stays; after any scroll_up, scroll_down or scroll_to_line, whatever
\* operations came before, the page lies in [0, floor(line_count / PAGE_SIZE)].
C24_ScrollClamps ==
    Scrolled =>
        LET rec  == editor[abs_path]
            last == LineCount(rec.lines) \div 200
        IN  /\ call.op = "scroll_down"
                => rec.page = IF call.page_before = last THEN last
                              ELSE call.page_before + 1
            /\ call.op = "scroll_up"
                => rec.page = IF call.page_before = 0 THEN 0
                              ELSE call.page_before - 1
            /\ 0 <= rec.page
            /\ rec.page <= last

\* C25: scroll_to_line(p, n) on an open file with 1 <= n <= line_count(p)
\* sets the page to floor((n - 1) / 200); with n < 1 or n > line_count(p),
\* or when p is not open or does not exist, it is rejected and the page and
\* the rest of the editor are unchanged.
C25_ScrollToLine ==
    Unfailed("scroll_to_line") =>
        LET n == call.input[2]
        IN  IF /\ call.was_open
               /\ call.existed
               /\ 1 <= n
               /\ n <= LineCount(editor[abs_path].lines)
            THEN /\ call.ret = "Scrolled to window containing line"
                 /\ editor[abs_path].page = (n - 1) \div 200
                 /\ call.records \subseteq {abs_path}
            ELSE /\ call.ret # "Scrolled to window containing line"
                 /\ ~call.editor_changed

\* C25 witness: scroll_to_line has moved a file of 201 lines to line 200,
\* on page 0
C25_Witness ==
    /\ Unfailed("scroll_to_line")
    /\ call.input[2] = 200
    /\ call.ret = "Scrolled to window containing line"
    /\ call.page_before = 1
    /\ editor[abs_path].page = 0

-----------------------------------------------------------------------------
(* reset and the shell bridge *)

OfSession(op) == call.via = "session" /\ call.op = op

\* C26: once reset has returned the editor holds no record, and the symbol
\* index holds entries, all of them built or loaded for the task that reset
\* has just set up.
C26_ResetClears ==
    (OfSession("reset") /\ call.exc = "none") =>
        /\ editor = << >>
        /\ session.tables # {}
        /\ \A e \in session.tables : e.task = session.task

\* a reset for another task returns after a file had been opened
C26_Witness ==
    /\ OfSession("reset") /\ call.exc = "none"
    /\ call.editor_changed
    /\ session.task = 2
    /\ session.tables = {Entry(2, TRUE)}

EnvNames ==
    {"export CURRENT_FILE", "export CURRENT_LINE", "export SEARCH_RESULTS",
     "export SEARCH_FILES", "export SEARCH_INDEX"}

\* the place of a step of reset in the order the specification gives
ClaimedRank(name) ==
    IF name = "cd /" THEN 1
    ELSE IF name = "git clone" THEN 2
    ELSE IF name = "git restore ." THEN 3
    ELSE IF name = "git reset --hard" THEN 4
    ELSE IF name = "git clean -fdxq" THEN 5
    ELSE IF name \in EnvNames THEN 6
    ELSE IF name \in {"load index", "build index"} THEN 7
    ELSE IF name = "git apply test.patch" THEN 8
    ELSE 0

\* and in the order of the code: the index comes before the variables
CodeRank(name) ==
    IF name \in EnvNames THEN 7
    ELSE IF name \in {"load index", "build index"} THEN 6
    ELSE ClaimedRank(name)

\* the index is made after the tree was cleaned and before the test patch
IndexBetween(log) ==
    \A i \in 1..Len(log) :
        log[i] \in {"load index", "build index"} =>
            /\ \E j \in 1..(i - 1) : log[j] = "git clean -fdxq"
            /\ \A j \in 1..(i - 1) : log[j] # "git apply test.patch"

\* C27 as stated: the steps reset has started are in the order cd /, clone,
\* git restore, git reset --hard, git clean, reset of the environment
\* variables, build or load of the index, test patch; and the index is
\* neither made before the clean nor after the test patch.
C27_ClaimedOrder ==
    OfSession("reset") =>
        /\ \A i, j \in 1..Len(session.log) :
              (i < j /\ ClaimedRank(session.log[i]) # 0 /\ ClaimedRank(session.log[j]) # 0)
                  => ClaimedRank(session.log[i]) <= ClaimedRank(session.log[j])
        /\ IndexBetween(session.log)

\* C27, amended: the order is cd /, clone, git restore, git reset --hard,
\* git clean, build or load of the index, reset of the environment
\* variables, and the test patch as the last step of all; the index is made
\* after the clean, from a clean tree, and never after the test patch.
C27_CodeOrder ==
    OfSession("reset") =>
        /\ \A i, j \in 1..Len(session.log) :
              (i < j /\ CodeRank(session.log[i]) # 0 /\ CodeRank(session.log[j]) # 0)
                  => CodeRank(session.log[i]) <= CodeRank(session.log[j])
        /\ \A i \in 1..Len(session.log) :
              session.log[i] = "git apply test.patch" => i = Len(session.log)
        /\ IndexBetween(session.log)
        /\ \A e \in session.tables : e.clean

\* a reset that finds a file added to the tree, removes it, builds the
\* index and applies the test patch
C27_Witness ==
    /\ OfSession("reset") /\ call.exc = "none"
    /\ session.log[Len(session.log)] = "git apply test.patch"
    /\ \E i \in 1..Len(session.log) : session.log[i] = "build index"
    /\ \E q \in call.files : q \notin DOMAIN InitialDisk

\* C28 as stated: whenever the return code after the command of a
\* communicate_with_handling is not 0, the call raises RuntimeError and has
\* closed the session.
C28_AnyNonZeroCloses ==
    (OfSession("communicate_with_handling") /\ session.rc_seen # 0) =>
        (call.exc = "RuntimeError" /\ session.closed)

\* C28, amended: when communicate returns and leaves a return code other
\* than 0 (the rejection by the syntax check included),
\* communicate_with_handling closes the session and raises RuntimeError;
\* when communicate itself raises, its exception leaves the call and the
\* session is not closed.  In a reset, the step that fails in either way is
\* the last step started.
C28_HandledFailure ==
    /\ OfSession("communicate_with_handling") =>
          /\ session.rc_seen \notin {0, NoneRC} =>
                (call.exc = "RuntimeError" /\ session.closed /\ shell = "dead")
          /\ session.rc_seen = NoneRC =>
                (call.exc \in {"RuntimeError", "TimeoutError"} /\ ~session.closed)
          /\ session.rc_seen = 0 => (call.exc = "none" /\ ~session.closed)
    /\ (OfSession("reset") /\ session.fail.at # 0 /\ session.fail.critical) =>
          /\ call.exc # "none"
          /\ Len(session.log) = session.fail.at
          /\ session.fail.kind \in {"nonzero", "syntax"} =>
                (call.exc = "RuntimeError" /\ session.closed /\ shell = "dead")
          /\ session.fail.kind \notin {"nonzero", "syntax"} => ~session.closed

\* a command that the syntax check rejects under communicate_with_handling
C28_Witness ==
    /\ OfSession("communicate_with_handling")
    /\ session.check = 2
    /\ ~session.ran
    /\ call.exc = "RuntimeError"
    /\ session.closed

\* the exit status the shell reports for an input, line by line
ExpectedCode(input) ==
    IF input = <<"exit">> THEN 0
    ELSE IF \E i \in 1..Len(input) : input[i] = "EOF" THEN 127
    ELSE IF \E i \in 1..Len(input) : input[i] = "(" THEN 2
    ELSE IF input[Len(input)] = "false" THEN 1
    ELSE 0

\* C29: after a communicate that returns, the return code is a natural
\* number, the status of this call's own last round trip; after one that
\* raises, the exit code that is not a number included (RuntimeError), the
\* return code is None.
C29_ReturnCode ==
    OfSession("communicate") =>
        /\ call.exc = "none" =>
              (returncode \in Nat /\ returncode = ExpectedCode(session.input))
        /\ call.exc # "none" => returncode = NoneRC
        /\ (\E i \in 1..2 : session.ways[i] = "nondigit") =>
              (call.exc = "RuntimeError" /\ returncode = NoneRC)

\* a command that succeeds, after one that had left the return code 1
C29_Witness ==
    /\ OfSession("communicate") /\ call.exc = "none"
    /\ session.rc_before = 1
    /\ session.input = <<"true">>
    /\ returncode = 0

\* C30: when the syntax check of an input other than exit returns non-zero,
\* the shell has executed no line of the input (at most the closing line of
\* the check's own document), the disk is as before, communicate returns
\* the output of the check and the return code is not 0.
C30_RejectedNeverExecuted ==
    (OfSession("communicate") /\ call.exc = "none"
        /\ session.input # <<"exit">> /\ session.check > 0) =>
        /\ session.executed \in {<<>>, <<"EOF">>}
        /\ ~call.disk_changed
        /\ ~session.ran
        /\ call.ret = "syntax check output"
        /\ returncode # 0

\* C32: no step writes a command to the shell while a command written
\* before is still running: a step that starts a round trip never finds the
\* shell busy.
C32_OneOutstanding ==
    [][shell = "busy" => ~(call'.via = "step" /\ call'.trips > 0)]_vars

\* C36: write_file reports success only when the shell command that wrote
\* the file, its last round trip, left the return code 0.
C36_WriteFailureReported ==
    (call.op = "write_file" /\ call.ret = "Successfully wrote to file")
        => returncode = 0

PathOps ==
    {"open_file", "create_file", "write_file", "delete_file", "scroll_down",
     "scroll_up", "search_file", "search_dir", "find_file"}

\* C35: with the shell in a directory D below the repository root, a tool
\* given a relative path q that does not begin with the root acts on D/q.
C35_RelativeToCwd ==
    (call.route \in {"tool", "direct"} /\ call.op \in PathOps /\ call.failure = "none"
        /\ StartsWith(cwd, file_root \o <<"/">>)
        /\ fpath \in {In_a, In_b, In_c})
        => abs_path = cwd \o <<"/">> \o fpath

\* the lines of a text that the linter reports
Warned(c) == {i \in 1..LineCount(c) : Lines(c)[i] = "y"}

\* C34: after a successful edit_file the warnings listed are, for every
\* file the edit changed, those of its new contents that its contents
\* before the edit did not have.
C34_LintDelta ==
    (ViaStep /\ call.op = "edit_file" /\ helper.fn = "real_write_diff"
        /\ call.ret = "Successfully edited file(s)")
        => helper.value.reported =
              UNION {{[path |-> q, line |-> i, symbol |-> "undefined-variable"] :
                         i \in Warned(disk[q]) \ Warned(helper.value.old[q])}
                     : q \in call.files}

\* The matching lines of L, counted from 1, and the k-th of them
MatchLines(L, term) == {i \in 1..Len(L) : L[i] = term}

NthMatch(M, k) == CHOOSE i \in M : Cardinality({j \in M : j < i}) = k - 1

\* C37: search_file(term, p) on an open file returns one window per matching
\* line, each holding the matching line with the 10 lines before it and the
\* 10 lines after it, clipped at the ends of the file; more than 10 matching
\* lines give the narrow-your-search message and no window; a file that is
\* not open makes it fail; the editor is never changed.
C37_SearchWindows ==
    (ViaStep /\ call.op = "search_file" /\ helper.fn = "search_file")
        => LET v == helper.value
           IN  /\ ~call.editor_changed
               /\ IF v.path \notin DOMAIN editor THEN v.exc = "Exception"
                  ELSE LET L == Lines(editor[v.path].lines)
                           M == MatchLines(L, helper.arg[1])
                       IN  /\ v.exc = "none"
                           /\ IF Cardinality(M) > 10
                              THEN v.windows = <<>> /\ v.ret = "Please narrow your search"
                              ELSE /\ Len(v.windows) = Cardinality(M)
                                   /\ \A k \in 1..Len(v.windows) :
                                        LET i  == NthMatch(M, k)
                                            lo == IF i - 10 >= 1 THEN i - 10 ELSE 1
                                            hi == IF i + 10 <= Len(L) THEN i + 10 ELSE Len(L)
                                        IN  v.windows[k].lines = SubSeq(L, lo, hi)

\* s holds t somewhere
Contains(s, t) == \E i \in 1..Len(s) : i + Len(t) - 1 <= Len(s) /\ SubSeq(s, i, i + Len(t) - 1) = t

\* C38: parse_command turns a <<<...>>> literal into exactly one argument
\* equal to the text between the delimiters, whatever the text (several
\* lines, '>' or '"' in it); a double-quoted string becomes one argument
\* with its quotes removed.  The text of a literal does not hold the closing
\* delimiter nor end with '>', the text of a string holds no quote.
C38_LiteralOneArgument ==
    (helper.fn = "parse_command" /\
        \/ /\ helper.arg.form = "literal"
           /\ ~Contains(helper.arg.body \o <<">", ">">>, <<">", ">", ">">>)
        \/ /\ helper.arg.form = "quoted"
           /\ ~Contains(helper.arg.body, <<"\"">>))
        => /\ helper.value.exc = "none"
           /\ helper.value.args = <<helper.arg.body>>

\* C40: for a verb that is not a tool and is not rejected, the text written
\* to the shell is the action line as it was given: a double-quoted argument
\* with white space in it is still double-quoted.
C40_ShellTextAsGiven ==
    (helper.fn = "communicate" /\ helper.arg.form = "quoted"
        /\ ~Contains(helper.arg.body, <<"\"">>)
        /\ (Contains(helper.arg.body, <<" ">>) \/ Contains(helper.arg.body, <<"\n">>)))
        => helper.value = helper.arg.command

\* C31: interrupt ends with the health check echo 'interrupted'; when the
\* health check fails in any way (it times out, it raises, or its output is
\* not the word interrupted) interrupt raises RuntimeError, the exception
\* for which step resets the container.
C31_HealthCheckFailure ==
    (OfSession("interrupt") /\ session.health \in {"timed out", "raised", "other output"})
        => call.exc = "RuntimeError"

\* C33: interrupt kills no parent process and not the ps probe, and every
\* other process listed at the probe is sent a kill.
C33_KillsChildrenOnly ==
    OfSession("interrupt") =>
        /\ session.killed \cap (parent_pids \cup {PsRow[1]}) = {}
        /\ \A i \in 1..Len(session.probe) :
              (session.probe[i][1] \notin parent_pids /\ session.probe[i] # PsRow)
                  => session.probe[i][1] \in session.killed

\* C39: between two resets the symbol index is read-only: no step action
\* (find_function, find_class, edit_file, delete_file, a shell command)
\* adds, removes or alters an entry of the function table or of the class
\* table.
C39_IndexReadOnly ==
    ViaStep => (/\ session.class_table = AfterReset.class_table
                /\ session.function_table = AfterReset.function_table)

=========================================================================
